---- MODULE Spec2Model ----
(***************************************************************************)
(* A model of rust-synth: the control-mapping registry (StateDefinition,   *)
(* StateInput, StateOutput), the MIDI message decoder, the rack evaluation *)
(* generated by define_rack!, and the two driver callbacks of run_synth    *)
(* that share the parameter set behind one mutex.                          *)
(*                                                                         *)
(* Numbers.  f32 parameter values are modelled as exact rationals with the *)
(* fixed denominator FloatScale: the integer n stands for n / FloatScale.  *)
(* FloatScale is a multiple of 127 and of 20, so that b / 127 and every    *)
(* default of Input (0.5, 0.1, 0.05, 0.8) is an integer number of units.    *)
(* u8 values are the integers 0 .. 255.                                    *)
(***************************************************************************)
EXTENDS Integers, Sequences, FiniteSets, TLC

VARIABLES
    input,        \* the shared parameter set (Arc<Mutex<Input>>'s content)
    inputs,       \* StateInput.inputs: Key -> InputConfig
    outputs,      \* StateOutput.outputs: Vec<OutputConfig>
    call,         \* history: the last update_state call and the state before it
    prevPress,    \* history: per key, whether its last message was a press
    flips,        \* history: per key, how often a message on it changed its field
    edges,        \* history: per key, the press messages not preceded by a press
    lock,         \* the parameter mutex: "free", owned by "midi" or "audio", or
                  \*   "poisoned" (its owner panicked while holding it)
    midiPc,       \* position of the MIDI input callback
    message,      \* the raw bytes the MIDI callback is handling
    clone,        \* the MIDI callback's `input.clone()`
    sent,         \* the feedback messages of the last output pass
    audioPc,      \* position of the audio output callback
    frame,        \* frames of the current buffer already computed
    decoded,      \* the result of MidiMessage::try_from(message)
    snapshot,     \* history: the parameter set when the running audio callback
                  \*   acquired the lock (<< >> while no callback runs)
    used,         \* history: per frame of the buffer, the input rack.update got
    data,         \* the buffer of the running audio callback: per sample, the
                  \*   frame whose rack output was written to it (0: none)
    rack,         \* the declared units of the rack, in declaration order
    out,          \* each unit's out field
    tick,         \* rack ticks evaluated so far
    seen,         \* history: per unit, the outs its input sources read in the last tick
    log,          \* history: the units updated in the last tick, in order
    outBefore,    \* history: every unit's out before the last tick
    rackFailure,  \* the unit whose update panicked on an already borrowed
                  \*   RefCell, or "None"
    setup,        \* start-up: "defining" bindings, "running", or "rejected"
    failure,      \* the panic a call of update_state or output ended in, or "None"
    defined,      \* history: the last define_input / define_output / config entry
    eg,           \* an EG unit: state, clock, level, out
    egIn,         \* history: the inputs the EG's sources gave in the last tick
    egPrev,       \* history: the EG before the last tick
    egMid,        \* history: the EG of the last tick between its two matches
    egRun,        \* history: ticks since Idle with gate held and a, d, s constant,
                  \*   the states passed on the way, and ticks with gate and
                  \*   repeat false and r constant
    egTicks,      \* EG ticks evaluated so far
    vco,          \* a VCO unit: freq_min, freq_max, phase, out
    vcoIn,        \* history: the inputs the VCO's sources gave in the last tick
    vcoPrev,      \* history: the VCO before the last tick
    vcoTicks,     \* VCO ticks evaluated so far
    lpf,          \* an IIRLPF unit: buf_a, i_a, buf_b, i_b, out
    lpfIn,        \* history: the coefficients and the sample of the last tick
    lpfXs,        \* history: every in_value the filter was given, oldest first
    lpfYs,        \* history: every out the filter computed, oldest first
    lpfFixed      \* history: every tick so far computed the same coefficients

ctlVars == <<input, inputs, outputs, call, prevPress, flips, edges>>
decVars == <<decoded>>
bufVars == <<snapshot, used, data>>
threadVars == <<lock, midiPc, message, clone, sent, audioPc, frame, decVars, bufVars>>
egVars == <<eg, egIn, egPrev, egMid, egRun, egTicks>>
vcoVars == <<vco, vcoIn, vcoPrev, vcoTicks>>
patchVars == <<rack, out, tick, seen, log, outBefore, rackFailure>>
lpfVars == <<lpf, lpfIn, lpfXs, lpfYs, lpfFixed>>
rackVars == <<patchVars, egVars, vcoVars, lpfVars>>
cfgVars == <<setup, failure, defined>>
vars == <<ctlVars, threadVars, rackVars, cfgVars>>

----------------------------------------------------------------------------
(* Bounds of the model. *)

\* presses counted per toggle key before the environment stops pressing it
MaxFlips == 2
\* frames per audio buffer (441 in the program)
FramesPerBuffer == 2
\* rack ticks explored
MaxTicks == 2

----------------------------------------------------------------------------
(* Parameter values. *)

FloatScale == 127 * 20

\* `value as f32 / 127.0f32`
F32FromByte_Div128(value) == (value * FloatScale) \div 128
F32FromByte(value) == (value * FloatScale) \div 127

WaveFormNames == {"Sine", "Triangle", "Sawtooth", "Square", "Noise"}
WaveForm == {"WaveForm::Sine", "WaveForm::Triangle", "WaveForm::Sawtooth",
             "WaveForm::Square", "WaveForm::Noise"}

from_name(name) ==
    CASE name = "Sine" -> "WaveForm::Sine"
      [] name = "Triangle" -> "WaveForm::Triangle"
      [] name = "Sawtooth" -> "WaveForm::Sawtooth"
      [] name = "Square" -> "WaveForm::Square"
      [] name = "Noise" -> "WaveForm::Noise"
      [] OTHER -> "None"

to_name(wf) ==
    CASE wf = "WaveForm::Sine" -> "Sine"
      [] wf = "WaveForm::Triangle" -> "Triangle"
      [] wf = "WaveForm::Sawtooth" -> "Sawtooth"
      [] wf = "WaveForm::Square" -> "Square"
      [] wf = "WaveForm::Noise" -> "Noise"

\* Input { ..Default::default() }
InputDefault ==
    [vco1_freq |-> FloatScale \div 2,
     vco1_waveform |-> "WaveForm::Sine",
     lfo1_freq |-> FloatScale \div 2,
     lfo1_waveform |-> "WaveForm::Sine",
     vco1_lfo1_amount |-> 0,
     eg1_a |-> FloatScale \div 10,
     eg1_d |-> FloatScale \div 20,
     eg1_s |-> (FloatScale * 8) \div 10,
     eg1_r |-> FloatScale \div 10,
     eg1_gate |-> FALSE,
     eg1_repeat |-> FALSE,
     lpf1_freq |-> FloatScale \div 10,
     lpf1_resonance |-> FloatScale \div 20,
     lpf1_lfo1_amount |-> 0]

\* Input::new_state_definition(): the accessor kind registered per field
accessors ==
    [vco1_freq |-> "F32",
     vco1_waveform |-> "Enum",
     lfo1_freq |-> "F32",
     lfo1_waveform |-> "Enum",
     vco1_lfo1_amount |-> "F32",
     eg1_a |-> "F32",
     eg1_d |-> "F32",
     eg1_s |-> "F32",
     eg1_r |-> "F32",
     eg1_gate |-> "Bool",
     eg1_repeat |-> "Bool",
     lpf1_freq |-> "F32",
     lpf1_resonance |-> "F32",
     lpf1_lfo1_amount |-> "F32"]

FieldNames == DOMAIN accessors
F32Fields == {n \in FieldNames : accessors[n] = "F32"}

\* the getter closure of a FieldAccessor (an Enum getter returns the name)
FieldGet(state, name) ==
    IF accessors[name] = "Enum" THEN to_name(state[name]) ELSE state[name]

\* the setter closure of a FieldAccessor (an Enum setter parses the name and
\* does nothing when it names no variant)
FieldSet_DefaultOnBadName(state, name, value) ==
    IF accessors[name] = "Enum"
    THEN IF from_name(value) # "None"
         THEN [state EXCEPT ![name] = from_name(value)]
         ELSE [state EXCEPT ![name] = "WaveForm::Sine"]
    ELSE [state EXCEPT ![name] = value]
FieldSet(state, name, value) ==
    IF accessors[name] = "Enum"
    THEN IF from_name(value) # "None"
         THEN [state EXCEPT ![name] = from_name(value)]
         ELSE state
    ELSE [state EXCEPT ![name] = value]

----------------------------------------------------------------------------
(* Bindings.  A Key::ControlChange(n) is the number n.                      *)

F32Config(name) == [type |-> "F32", name |-> name]
BoolConfig(name, mode) == [type |-> "Bool", name |-> name, mode |-> mode]
EnumConfig(name, values) == [type |-> "Enum", name |-> name, values |-> values]

\* setup_input: the bindings the program ships with
ShippedInputs ==
    (0 :> F32Config("lfo1_freq")) @@
    (1 :> F32Config("vco1_freq")) @@
    (16 :> F32Config("vco1_lfo1_amount")) @@
    (2 :> F32Config("eg1_a")) @@
    (18 :> F32Config("eg1_d")) @@
    (3 :> F32Config("eg1_s")) @@
    (19 :> F32Config("eg1_r")) @@
    (4 :> F32Config("lpf1_freq")) @@
    (20 :> F32Config("lpf1_resonance")) @@
    (21 :> F32Config("lpf1_lfo1_amount")) @@
    (32 :> EnumConfig("lfo1_waveform", <<"Sine", "Triangle">>)) @@
    (48 :> EnumConfig("lfo1_waveform", <<"Sawtooth">>)) @@
    (64 :> EnumConfig("lfo1_waveform", <<"Square", "Noise">>)) @@
    (33 :> EnumConfig("vco1_waveform", <<"Sine", "Triangle">>)) @@
    (49 :> EnumConfig("vco1_waveform", <<"Sawtooth">>)) @@
    (65 :> EnumConfig("vco1_waveform", <<"Square", "Noise">>)) @@
    (50 :> BoolConfig("eg1_repeat", "Toggle")) @@
    (66 :> BoolConfig("eg1_gate", "Momentary"))

\* a second binding table, as setup_state_io builds one from a configuration
\* file: a three-valued cycle, and the button modes exchanged
CycleInputs ==
    (1 :> F32Config("vco1_freq")) @@
    (33 :> EnumConfig("vco1_waveform", <<"Sine", "Triangle", "Sawtooth">>)) @@
    (49 :> EnumConfig("vco1_waveform", <<"Square", "Noise">>)) @@
    (50 :> BoolConfig("eg1_gate", "Toggle")) @@
    (66 :> BoolConfig("eg1_repeat", "Momentary"))

BoolOutput(name, key) == [type |-> "Bool", name |-> name, out |-> key]
EnumOutput(name, values, key) ==
    [type |-> "Enum", name |-> name, out |-> key, values |-> values]

\* setup_output: the feedback bindings the program ships with
ShippedOutputs ==
    << EnumOutput("lfo1_waveform", <<"Sine", "Triangle">>, 32),
       EnumOutput("lfo1_waveform", <<"Sawtooth">>, 48),
       EnumOutput("lfo1_waveform", <<"Square", "Noise">>, 64),
       EnumOutput("vco1_waveform", <<"Sine", "Triangle">>, 33),
       EnumOutput("vco1_waveform", <<"Sawtooth">>, 49),
       EnumOutput("vco1_waveform", <<"Square", "Noise">>, 65),
       BoolOutput("eg1_gate", 66),
       BoolOutput("eg1_repeat", 50) >>

\* the feedback bindings of the second table: two disjoint subsets that leave
\* Noise to no indicator
CycleOutputs ==
    << EnumOutput("vco1_waveform", <<"Sine", "Triangle", "Sawtooth">>, 33),
       EnumOutput("vco1_waveform", <<"Square">>, 49),
       BoolOutput("eg1_gate", 50),
       BoolOutput("eg1_repeat", 66) >>

\* a third table, which define_input and setup_state_io accept: an Enum
\* binding with an empty value subset among valid ones
UncheckedInputs ==
    (1 :> F32Config("vco1_freq")) @@
    (33 :> EnumConfig("vco1_waveform", << >>)) @@
    (50 :> BoolConfig("eg1_gate", "Toggle"))
UncheckedOutputs == << BoolOutput("eg1_gate", 66) >>

\* the (StateInput, StateOutput) pairs a run is configured with
IoTables ==
    {<<ShippedInputs, ShippedOutputs>>, <<CycleInputs, CycleOutputs>>,
     <<UncheckedInputs, UncheckedOutputs>>}

----------------------------------------------------------------------------
(* StateInput::update_state. *)

\* `let pressed = 0x40 <= value`
Pressed(value) == 64 <= value

\* ButtonMode::Momentary: set(state, pressed)
MomentaryUpdate_Latch(current, pressed) == current \/ pressed
MomentaryUpdate(current, pressed) == pressed

\* ButtonMode::Toggle: if pressed { set(state, !current) }
ToggleUpdate_Level(current, pressed) == pressed
ToggleUpdate(current, pressed) == IF pressed THEN ~current ELSE current

\* the zero-based position of the first entry of values equal to current, or -1
FirstIndex(values, current) ==
    IF \E i \in 1..Len(values) : values[i] = current
    THEN (CHOOSE i \in 1..Len(values) :
            /\ values[i] = current
            /\ \A j \in 1..(i - 1) : values[j] # current) - 1
    ELSE -1

\* the index the Enum branch computes: `let mut index = 0; for (i, v) in ...
\* if v == current { index = (i + 1) % values.len(); break; }`
EnumNextIndex_Saturate(values, current) ==
    LET i == FirstIndex(values, current)
    IN IF i >= 0 THEN (IF i + 1 < Len(values) THEN i + 1 ELSE i) ELSE 0
EnumNextIndex(values, current) ==
    LET i == FirstIndex(values, current)
    IN IF i >= 0 THEN (i + 1) % Len(values) ELSE 0

\* the Enum branch of update_state: on a press, set(state, &values[index])
EnumUpdate_OnRelease(state, name, values, value) ==
    FieldSet(state, name,
             values[EnumNextIndex(values, FieldGet(state, name)) + 1])
EnumUpdate_SkipAbsent(state, name, values, value) ==
    IF Pressed(value) /\ FirstIndex(values, FieldGet(state, name)) >= 0
    THEN FieldSet(state, name,
                  values[EnumNextIndex(values, FieldGet(state, name)) + 1])
    ELSE state
EnumUpdate(state, name, values, value) ==
    IF Pressed(value)
    THEN FieldSet(state, name,
                  values[EnumNextIndex(values, FieldGet(state, name)) + 1])
    ELSE state

\* assert_has_field / field: whether the registry has an accessor for name
assert_has_field_Skip(name) == TRUE
assert_has_field(name) == name \in FieldNames

\* the panic update_state ends in, or "None": `field(name)` on an unregistered
\* name, an accessor of another kind than the binding's, `&values[index]`
\* on an empty values; every one of them before any `set`
UpdateFailure_IndexesOnRelease(self_inputs, state, key, value) ==
    IF key \notin DOMAIN self_inputs
    THEN "None"
    ELSE LET c == self_inputs[key]
         IN IF c.name \notin FieldNames THEN "UndefinedField"
            ELSE IF accessors[c.name] # c.type THEN "AssertionError"
            ELSE IF c.type = "Enum" /\ Len(c.values) = 0
                 THEN "IndexOutOfRange"
            ELSE "None"
UpdateFailure(self_inputs, state, key, value) ==
    IF key \notin DOMAIN self_inputs
    THEN "None"
    ELSE LET c == self_inputs[key]
         IN IF c.name \notin FieldNames THEN "UndefinedField"
            ELSE IF accessors[c.name] # c.type THEN "AssertionError"
            ELSE IF c.type = "Enum" /\ Pressed(value) /\ Len(c.values) = 0
                 THEN "IndexOutOfRange"
            ELSE "None"

\* update_state(&self, state, key, value), self.inputs being self_inputs
update_state(self_inputs, state, key, value) ==
    IF key \notin DOMAIN self_inputs
    THEN state
    ELSE LET c == self_inputs[key]
         IN CASE c.type = "Bool" ->
                   IF c.mode = "Momentary"
                   THEN FieldSet(state, c.name,
                          MomentaryUpdate(FieldGet(state, c.name), Pressed(value)))
                   ELSE FieldSet(state, c.name,
                          ToggleUpdate(FieldGet(state, c.name), Pressed(value)))
              [] c.type = "F32" -> FieldSet(state, c.name, F32FromByte(value))
              [] c.type = "Enum" -> EnumUpdate(state, c.name, c.values, value)

----------------------------------------------------------------------------
(* MidiMessage::try_from.  A byte slice is a sequence of integers 0..255;  *)
(* index i of the slice is element i + 1 of the sequence.                  *)

ParseError == [kind |-> "ParseError"]
Panic == [kind |-> "Panic"]
Unknown(raw) == [kind |-> "Unknown", raw |-> raw]
SysEx(payload) == [kind |-> "SysEx", payload |-> payload]
ControlChange(ch, num, value) ==
    [kind |-> "ControlChange", ch |-> ch, num |-> num, value |-> value]

\* get_at: Ok(value[index]) or, past the end, Err (here -1)
get_at(value, index) == IF index < Len(value) THEN value[index + 1] ELSE -1

\* value[from..to]: panics (here: Panic) when from > to or to > len
Slice(value, from, to) ==
    IF from > to \/ to > Len(value)
    THEN Panic
    ELSE SysEx(SubSeq(value, from + 1, to))

try_from_Through7F(value) ==
    LET status == get_at(value, 0)
        kind == (status \div 16) * 16
        ch == status % 16
        control == get_at(value, 1)
        control_value == get_at(value, 2)
    IN IF status = -1 THEN ParseError
       ELSE CASE kind = 176 ->
                   IF control = -1 THEN ParseError
                   ELSE IF control <= 127
                        THEN IF control_value = -1 THEN ParseError
                             ELSE ControlChange(ch, control, control_value)
                        ELSE Unknown(value)
              [] kind = 240 ->
                   IF value[Len(value)] = 247
                   THEN Slice(value, 1, Len(value) - 1)
                   ELSE Slice(value, 1, Len(value))
              [] OTHER -> Unknown(value)
try_from_KeepsTrailer(value) ==
    LET status == get_at(value, 0)
        kind == (status \div 16) * 16
        ch == status % 16
        control == get_at(value, 1)
        control_value == get_at(value, 2)
    IN IF status = -1 THEN ParseError
       ELSE CASE kind = 176 ->
                   IF control = -1 THEN ParseError
                   ELSE IF control <= 119
                        THEN IF control_value = -1 THEN ParseError
                             ELSE ControlChange(ch, control, control_value)
                        ELSE Unknown(value)
              [] kind = 240 -> Slice(value, 1, Len(value))
              [] OTHER -> Unknown(value)
try_from(value) ==
    LET status == get_at(value, 0)
        kind == (status \div 16) * 16
        ch == status % 16
        control == get_at(value, 1)
        control_value == get_at(value, 2)
    IN IF status = -1 THEN ParseError
       ELSE CASE kind = 176 ->
                   IF control = -1 THEN ParseError
                   ELSE IF control <= 119
                        THEN IF control_value = -1 THEN ParseError
                             ELSE ControlChange(ch, control, control_value)
                        ELSE Unknown(value)
              [] kind = 240 ->
                   IF value[Len(value)] = 247
                   THEN Slice(value, 1, Len(value) - 1)
                   ELSE Slice(value, 1, Len(value))
              [] OTHER -> Unknown(value)

----------------------------------------------------------------------------
(* StateOutput::output and the sink run_synth passes to it. *)

\* set_led: the bytes sent for one output entry
set_led(num, on) == IF on THEN <<176, num, 127>> ELSE <<176, num, 0>>

\* the boolean an output entry reports for state
OutputValue_First(o, state) ==
    IF o.type = "Bool"
    THEN FieldGet(state, o.name)
    ELSE o.values[1] = FieldGet(state, o.name)
OutputValue_Inverted(o, state) ==
    IF o.type = "Bool"
    THEN FieldGet(state, o.name)
    ELSE ~(\E i \in 1..Len(o.values) : o.values[i] = FieldGet(state, o.name))
OutputValue(o, state) ==
    IF o.type = "Bool"
    THEN FieldGet(state, o.name)
    ELSE \E i \in 1..Len(o.values) : o.values[i] = FieldGet(state, o.name)

\* the panic of entry o in output, or "None"
EntryFailure(o) ==
    IF o.name \notin FieldNames THEN "UndefinedField"
    ELSE IF accessors[o.name] # o.type THEN "AssertionError"
    ELSE "None"

\* the position of the first entry output panics at, or 0
FirstFailing(self_outputs) ==
    IF \E i \in 1..Len(self_outputs) : EntryFailure(self_outputs[i]) # "None"
    THEN CHOOSE i \in 1..Len(self_outputs) :
            /\ EntryFailure(self_outputs[i]) # "None"
            /\ \A j \in 1..(i - 1) : EntryFailure(self_outputs[j]) = "None"
    ELSE 0

\* output(&state_out, &state, &mut midi_out) with a sink that returns Ok:
\* one message per entry, in order
StateOutput_output(self_outputs, state) ==
    [i \in 1..Len(self_outputs) |->
        set_led(self_outputs[i].out, OutputValue(self_outputs[i], state))]

\* `f(out, ..)?`: the sink calls whose message went out when the sink returns
\* Err on call number failAt (0: on none), the pass stopping there
SinkErrAt == {0, 3}
OutputUntil(self_outputs, state, failAt) ==
    IF failAt = 0 \/ failAt > Len(self_outputs)
    THEN StateOutput_output(self_outputs, state)
    ELSE [i \in 1..(failAt - 1) |->
            set_led(self_outputs[i].out, OutputValue(self_outputs[i], state))]

----------------------------------------------------------------------------
(* EG::update.  Time is counted in sample periods: clock, a, d and r are   *)
(* numbers of periods of 1 / SAMPLES_PER_SEC seconds, so that              *)
(* `clock += 1.0 / SAMPLES_PER_SEC` is clock + 1.  A level (s, level, out) *)
(* is an exact fraction <<numerator, denominator>> in lowest terms.        *)

RECURSIVE GCD(_, _)
GCD(m, n) == IF n = 0 THEN m ELSE GCD(n, m % n)
Abs(n) == IF n < 0 THEN -n ELSE n

\* the fraction n / d, d > 0, in lowest terms
Frac(n, d) ==
    LET g == GCD(Abs(n), d) IN <<n \div g, d \div g>>
Zero == Frac(0, 1)
One == Frac(1, 1)
FAdd(x, y) == Frac(x[1] * y[2] + y[1] * x[2], x[2] * y[2])
FSub(x, y) == Frac(x[1] * y[2] - y[1] * x[2], x[2] * y[2])
FMul(x, y) == Frac(x[1] * y[1], x[2] * y[2])
FLe(x, y) == x[1] * y[2] <= y[1] * x[2]
FMax(x, y) == IF FLe(x, y) THEN y ELSE x

\* EG::default()
EGDefault == [state |-> "Idle", clock |-> 0, level |-> Zero, out |-> Zero]

EGInputs(gate, repeat, a, d, s, r) ==
    [gate |-> gate, repeat |-> repeat, a |-> a, d |-> d, s |-> s, r |-> r]

\* the arms of the first `match self.state` of update
EGFromIdle(e, in) ==
    IF in.gate \/ in.repeat
    THEN [e EXCEPT !.state = "A", !.clock = 0]
    ELSE e

EGFromA_KeepClock(e, in) ==
    IF ~in.gate /\ ~in.repeat
    THEN [e EXCEPT !.state = "R", !.clock = 0, !.level = e.out]
    ELSE IF e.clock >= in.a
         THEN [e EXCEPT !.state = "D"]
         ELSE e
EGFromA_TimeoutFirst(e, in) ==
    IF e.clock >= in.a
    THEN [e EXCEPT !.state = "D", !.clock = 0]
    ELSE IF ~in.gate /\ ~in.repeat
         THEN [e EXCEPT !.state = "R", !.clock = 0, !.level = e.out]
         ELSE e
EGFromA(e, in) ==
    IF ~in.gate /\ ~in.repeat
    THEN [e EXCEPT !.state = "R", !.clock = 0, !.level = e.out]
    ELSE IF e.clock >= in.a
         THEN [e EXCEPT !.state = "D", !.clock = 0]
         ELSE e

EGFromD(e, in) ==
    IF ~in.gate /\ ~in.repeat
    THEN [e EXCEPT !.state = "R", !.clock = 0, !.level = e.out]
    ELSE IF e.clock >= in.d
         THEN [e EXCEPT !.state = "S", !.clock = 0]
         ELSE e

EGFromS_HoldsOnRepeat(e, in) ==
    IF ~in.gate /\ ~in.repeat
    THEN [e EXCEPT !.state = "R", !.clock = 0, !.level = e.out]
    ELSE e
EGFromS(e, in) ==
    IF ~in.gate
    THEN [e EXCEPT !.state = "R", !.clock = 0, !.level = e.out]
    ELSE e

EGFromR_RetriggerFromZero(e, in) ==
    IF ~in.gate /\ e.clock >= in.r
    THEN [e EXCEPT !.state = "Idle", !.clock = 0, !.level = Zero]
    ELSE IF in.gate
         THEN [e EXCEPT !.state = "A", !.clock = 0, !.level = Zero]
         ELSE e
EGFromR_StrictRelease(e, in) ==
    IF ~in.gate /\ e.clock > in.r
    THEN [e EXCEPT !.state = "Idle", !.clock = 0, !.level = Zero]
    ELSE IF in.gate
         THEN [e EXCEPT !.state = "A", !.clock = 0, !.level = e.out]
         ELSE e
EGFromR(e, in) ==
    IF ~in.gate /\ e.clock >= in.r
    THEN [e EXCEPT !.state = "Idle", !.clock = 0, !.level = Zero]
    ELSE IF in.gate
         THEN [e EXCEPT !.state = "A", !.clock = 0, !.level = e.out]
         ELSE e

\* the first `match self.state` of update: at most one transition
EGTransition(e, in) ==
    CASE e.state = "Idle" -> EGFromIdle(e, in)
      [] e.state = "A" -> EGFromA(e, in)
      [] e.state = "D" -> EGFromD(e, in)
      [] e.state = "S" -> EGFromS(e, in)
      [] e.state = "R" -> EGFromR(e, in)

\* the arms of the second `match self.state`: the out of the state the unit
\* is in now
EGOutIdle(e, in) == [e EXCEPT !.clock = 0, !.out = Zero]

EGOutA_AddsLevel(e, in) ==
    IF in.a > 0
    THEN [e EXCEPT !.out = FAdd(e.level, Frac(e.clock, in.a))]
    ELSE e
EGOutA(e, in) ==
    IF in.a > 0
    THEN [e EXCEPT !.out = FMax(e.level, Frac(e.clock, in.a))]
    ELSE e

EGOutD(e, in) ==
    IF in.d > 0
    THEN [e EXCEPT !.out = FSub(One, FMul(FSub(One, in.s), Frac(e.clock, in.d)))]
    ELSE e

EGOutS_KeepsOut(e, in) == e
EGOutS(e, in) == [e EXCEPT !.out = in.s]

EGOutR_OneAhead(e, in) ==
    IF in.r > 0
    THEN [e EXCEPT !.out =
            FMax(Zero, FSub(e.level, FMul(e.level, Frac(e.clock + 1, in.r))))]
    ELSE e
EGOutR(e, in) ==
    IF in.r > 0
    THEN [e EXCEPT !.out =
            FMax(Zero, FSub(e.level, FMul(e.level, Frac(e.clock, in.r))))]
    ELSE e

EGOutput(e, in) ==
    CASE e.state = "Idle" -> EGOutIdle(e, in)
      [] e.state = "A" -> EGOutA(e, in)
      [] e.state = "D" -> EGOutD(e, in)
      [] e.state = "S" -> EGOutS(e, in)
      [] e.state = "R" -> EGOutR(e, in)

\* `self.clock += 1.0 / SAMPLES_PER_SEC as f32`
EGAdvance(e) == [e EXCEPT !.clock = e.clock + 1]

EGUpdate(e, in) == EGAdvance(EGOutput(EGTransition(e, in), in))

NoRun == [held |-> 0, a |-> 0, d |-> 0, s |-> Zero, passed |-> {},
          quiet |-> 0, r |-> 0]

\* an EG as MyRack::new() builds it, before its first tick
EGInit ==
    /\ eg = EGDefault
    /\ egIn = EGInputs(FALSE, FALSE, 0, 0, One, 0)
    /\ egPrev = EGDefault
    /\ egMid = EGDefault
    /\ egRun = NoRun
    /\ egTicks = 0

----------------------------------------------------------------------------
(* VCO::update.  Frequencies are counted in tenths of a hertz and the phase *)
(* in PhaseUnits-ths of a revolution, so that 2 pi is PhaseUnits and        *)
(* `freq * pi2 / SAMPLES_PER_SEC` is the frequency in tenths of a hertz.    *)
(* A sample is [wave |-> "lin", v |-> a fraction] or, for the sine of the   *)
(* phase v[1] / v[2] revolutions, [wave |-> "sin", v |-> <<v[1], v[2]>>].   *)

SAMPLES_PER_SEC == 44100
PhaseUnits == SAMPLES_PER_SEC * 10

RECURSIVE Power(_, _)
Power(b, n) == IF n = 0 THEN 1 ELSE b * Power(b, n - 1)

\* restore_freq(min, max, input) = exp(ln min + input (ln max - ln min)), for
\* a whole input and max a multiple of min: min (max / min)^input
restore_freq(min, max, x) == min * Power(max \div min, x)

\* f32 `%`: the remainder has the sign of the dividend
FRem(x, n) == IF x >= 0 THEN x % n ELSE -((-x) % n)

Lin(f) == [wave |-> "lin", v |-> f]
Sin(ph) == [wave |-> "sin", v |-> <<ph, PhaseUnits>>]

\* `self.phase += freq * pi2 / SAMPLES_PER_SEC; self.phase %= pi2`
VCOPhase_WrapOnce(phase, freq) ==
    IF phase + freq >= PhaseUnits THEN phase + freq - PhaseUnits ELSE phase + freq
VCOPhase(phase, freq) == FRem(phase + freq, PhaseUnits)

\* `self.out = match wf { .. }`, r being the rand::random() of Noise
VCOOut(v, wf, freq, r) ==
    LET ph == v.phase
    IN CASE wf = "WaveForm::Sine" -> Sin(ph)
         [] wf = "WaveForm::Sawtooth" ->
              IF 2 * ph < PhaseUnits
              THEN Lin(Frac(2 * ph, PhaseUnits))
              ELSE Lin(Frac(2 * ph - 2 * PhaseUnits, PhaseUnits))
         [] wf = "WaveForm::Triangle" ->
              IF 4 * ph < PhaseUnits
              THEN Lin(Frac(4 * ph, PhaseUnits))
              ELSE IF 4 * ph < 3 * PhaseUnits
                   THEN Lin(Frac(2 * PhaseUnits - 4 * ph, PhaseUnits))
                   ELSE Lin(Frac(4 * ph - 4 * PhaseUnits, PhaseUnits))
         [] wf = "WaveForm::Square" ->
              IF 2 * ph < PhaseUnits THEN Lin(One) ELSE Lin(Frac(-1, 1))
         [] wf = "WaveForm::Noise" ->
              IF 0 <= ph /\ ph < freq
              THEN Lin(FSub(FMul(r, Frac(2, 1)), One))
              ELSE v.out

\* Module::update of a VCO
VCOUpdate(v, x, wf, r) ==
    LET freq == restore_freq(v.freq_min, v.freq_max, x)
        moved == [v EXCEPT !.phase = VCOPhase(v.phase, freq)]
    IN [moved EXCEPT !.out = VCOOut(moved, wf, freq, r)]

\* the VCOs of MyRack: lfo1 (0.1 Hz - 100 Hz) and vco1 (100 Hz - 15000 Hz)
VCOUnit(min, max) ==
    [freq_min |-> min, freq_max |-> max, phase |-> 0, out |-> Lin(Zero)]
VCOUnits == {VCOUnit(1, 1000), VCOUnit(1000, 150000)}

VCOInputs(x, wf, r) == [freq |-> x, waveform |-> wf, r |-> r]

VCOInit(unit) ==
    /\ vco = unit
    /\ vcoIn = VCOInputs(0, "WaveForm::Sine", Zero)
    /\ vcoPrev = vco
    /\ vcoTicks = 0

----------------------------------------------------------------------------
(* IIRLPF::update.  Samples and coefficients are exact fractions.  The    *)
(* coefficients depend on the inputs through k = 4 pi^2 fc^2 and           *)
(* d = 2 pi fc / q only.                                                   *)

FNeg(x) == <<-x[1], x[2]>>
\* x / y for y > 0
FDiv(x, y) == Frac(x[1] * y[2], x[2] * y[1])

\* `let a0 = ..; let a = [..]; let b = [..]`
LPFCoefficients(k, d) ==
    LET two == Frac(2, 1)
        a0 == FAdd(FAdd(One, d), k)
    IN [a |-> <<One,
                FDiv(FSub(FMul(two, k), two), a0),
                FDiv(FAdd(FSub(One, d), k), a0)>>,
        b |-> <<FDiv(k, a0), FDiv(FMul(two, k), a0), FDiv(k, a0)>>]

\* Vec::resize(new_len, value)
resize(buf, new_len, value) ==
    IF Len(buf) >= new_len
    THEN SubSeq(buf, 1, new_len)
    ELSE buf \o [j \in 1..(new_len - Len(buf)) |-> value]

\* the index buf_at reads: usize arithmetic, -1 standing for an overflow
buf_index_OldestFirst(len, i, n) == (i + n) % len
buf_index(len, i, n) ==
    IF n < i
    THEN i - 1 - n
    ELSE IF len + i - 1 - n < 0 THEN -1 ELSE len + i - 1 - n

\* buf_at(buf, i, n): n = 0 -> newest, n = 1 -> z^-1, ...; a panic on an
\* index outside the buffer (here: the string "Panic")
buf_at(buf, i, n) ==
    LET at == buf_index(Len(buf), i, n)
    IN IF at < 0 \/ at >= Len(buf) THEN "Panic" ELSE buf[at + 1]

\* `let mut b_value = 0.0; for (m, x) in b.iter().enumerate() { .. }`
RECURSIVE LPFFeedForward(_, _, _, _)
LPFFeedForward(b, buf_b, i_b, m) ==
    IF m = 0
    THEN Zero
    ELSE FAdd(LPFFeedForward(b, buf_b, i_b, m - 1),
              FMul(b[m], buf_at(buf_b, i_b, m - 1)))

\* `let mut a_value = b_value; for (m, x) in a.iter().enumerate().skip(1) { .. }`
RECURSIVE LPFFeedBack(_, _, _, _, _)
LPFFeedBack(a, buf_a, i_a, b_value, m) ==
    IF m = 1
    THEN b_value
    ELSE FAdd(LPFFeedBack(a, buf_a, i_a, b_value, m - 1),
              FMul(FNeg(a[m]), buf_at(buf_a, i_a, m - 2)))

\* Module::update of an IIRLPF whose sources give k, d and in_value
LPFUpdate(f, k, d, in_value) ==
    LET c == LPFCoefficients(k, d)
        buf_a == resize(f.buf_a, Len(c.a), Zero)
        buf_b == [resize(f.buf_b, Len(c.b), Zero) EXCEPT ![f.i_b + 1] = in_value]
        i_b == (f.i_b + 1) % Len(buf_b)
        b_value == LPFFeedForward(c.b, buf_b, i_b, Len(c.b))
        a_value == LPFFeedBack(c.a, buf_a, f.i_a, b_value, Len(c.a))
    IN [buf_a |-> [buf_a EXCEPT ![f.i_a + 1] = a_value],
        i_a |-> (f.i_a + 1) % Len(buf_a),
        buf_b |-> buf_b,
        i_b |-> i_b,
        out |-> a_value]

\* IIRLPF::default()
LPFDefault ==
    [buf_a |-> << >>, i_a |-> 0, buf_b |-> << >>, i_b |-> 0, out |-> Zero]

LPFInputs(k, d, in_value) == [k |-> k, d |-> d, in_value |-> in_value]

LPFInit ==
    /\ lpf = LPFDefault
    /\ lpfIn = LPFInputs(One, One, Zero)
    /\ lpfXs = << >>
    /\ lpfYs = << >>
    /\ lpfFixed = TRUE

----------------------------------------------------------------------------
(* The states every specification starts from. *)

NoCall == [key |-> -1, value |-> 0, before |-> InputDefault]

\* keys and value bytes the control surface sends: a fader (1), an unbound
\* key (5) and the buttons; 63 and 64 are the two sides of the press threshold
CtlKeys == {1, 5, 33, 49, 65, 50, 66}
FaderValues == {0, 127, 255}
ButtonValues == {0, 63, 64, 127}
CtlCalls ==
    {<<k, v>> \in CtlKeys \X (FaderValues \cup ButtonValues) :
        IF k = 1 THEN v \in FaderValues ELSE v \in ButtonValues}

CtlInit ==
    /\ input = InputDefault
    /\ \E t \in IoTables : inputs = t[1] /\ outputs = t[2]
    /\ call = NoCall
    /\ prevPress = [k \in CtlKeys |-> FALSE]
    /\ flips = [k \in CtlKeys |-> 0]
    /\ edges = [k \in CtlKeys |-> 0]

\* the channels of the stream: `channels: 2`, `data.chunks_mut(2)`
Channels == 2
\* the buffer the driver passes: FramesPerBuffer frames of Channels samples
EmptyBuffer == [i \in 1..(Channels * FramesPerBuffer) |-> 0]
\* `for sample in frame.iter_mut() { *sample = value }` on chunk number n
WriteFrame_LeftOnly(buffer, n, value) ==
    [i \in DOMAIN buffer |-> IF i = Channels * n + 1 THEN value ELSE buffer[i]]
WriteFrame(buffer, n, value) ==
    [i \in DOMAIN buffer |->
        IF i > Channels * n /\ i <= Channels * (n + 1) THEN value ELSE buffer[i]]

\* the callbacks are connected and neither is running
CallbacksIdle ==
    /\ lock = "free"
    /\ midiPc = "idle"
    /\ clone = InputDefault
    /\ sent = StateOutput_output(outputs, InputDefault)
    /\ audioPc = "idle"
    /\ frame = 0
    /\ snapshot = << >>
    /\ used = << >>
    /\ data = EmptyBuffer
ThreadInit ==
    /\ CallbacksIdle
    /\ message = << >>
    /\ decoded = try_from(<< >>)

\* the bindings are defined and the callbacks connected
NoDefine == [op |-> "none", name |-> ""]
Running ==
    /\ setup = "running"
    /\ failure = "None"
    /\ defined = NoDefine

PatchIdle ==
    /\ rack = << >>
    /\ out = << >>
    /\ tick = 0
    /\ seen = << >>
    /\ log = << >>
    /\ outBefore = << >>
    /\ rackFailure = "None"
RackIdle ==
    /\ PatchIdle
    /\ EGInit
    /\ VCOInit(VCOUnit(1, 1000))
    /\ LPFInit

----------------------------------------------------------------------------
(* SpecCtl: update_state called directly, one call per step, with any key  *)
(* and value byte, as a test of StateInput calls it.                       *)

IsToggleKey(key) ==
    /\ key \in DOMAIN inputs
    /\ inputs[key].type = "Bool"
    /\ inputs[key].mode = "Toggle"

UpdateState(key, value) ==
    /\ setup = "running"
    /\ failure = "None"
    /\ IsToggleKey(key) /\ Pressed(value)
          => flips[key] < MaxFlips /\ edges[key] < MaxFlips
    /\ call' = [key |-> key, value |-> value, before |-> input]
    /\ failure' = UpdateFailure(inputs, input, key, value)
    /\ IF failure' # "None"
       THEN UNCHANGED <<input, prevPress, flips, edges>>
       ELSE /\ input' = update_state(inputs, input, key, value)
            /\ IF IsToggleKey(key)
               THEN /\ prevPress' = [prevPress EXCEPT ![key] = Pressed(value)]
                    /\ flips' = [flips EXCEPT
                         ![key] = @ + (IF input'[inputs[key].name]
                                            # input[inputs[key].name]
                                       THEN 1 ELSE 0)]
                    /\ edges' = [edges EXCEPT
                         ![key] = @ + (IF Pressed(value) /\ ~prevPress[key]
                                       THEN 1 ELSE 0)]
               ELSE UNCHANGED <<prevPress, flips, edges>>
    /\ UNCHANGED <<inputs, outputs, threadVars, rackVars, setup, defined>>

InitCtl == CtlInit /\ ThreadInit /\ RackIdle /\ Running

NextCtl == \E c \in CtlCalls : UpdateState(c[1], c[2])

SpecCtl == InitCtl /\ [][NextCtl]_vars

----------------------------------------------------------------------------
(* Properties of update_state, stated over the last call (SpecCtl).         *)

CallCfg == inputs[call.key]
CallIsBool(mode) ==
    /\ call.key \in DOMAIN inputs
    /\ CallCfg.type = "Bool"
    /\ CallCfg.mode = mode
CallIsEnum ==
    /\ call.key \in DOMAIN inputs
    /\ CallCfg.type = "Enum"
\* values is an ordered subset of the variants: non-empty, distinct names
OrderedSubset(values) ==
    /\ Len(values) > 0
    /\ \A i \in 1..Len(values) : values[i] \in WaveFormNames
    /\ \A i, j \in 1..Len(values) : values[i] = values[j] => i = j
Member(values, name) == \E i \in 1..Len(values) : values[i] = name

\* C3: on a Toggle key the number of flips of the bound field equals the
\* number of press edges (press messages not immediately preceded on that
\* key by another press message).
C3_FlipsEqualPressEdges ==
    \A k \in CtlKeys : IsToggleKey(k) => flips[k] = edges[k]

\* C4: on a Toggle key a release (byte < 0x40) leaves the bound field as it
\* was, and a press (byte >= 0x40) sets it to the negation of its value
\* immediately before the call.
C4_ToggleReleaseKeepsPressNegates ==
    CallIsBool("Toggle") =>
        IF call.value < 64
        THEN input[CallCfg.name] = call.before[CallCfg.name]
        ELSE input[CallCfg.name] = ~call.before[CallCfg.name]

C4_Witness ==
    /\ CallIsBool("Toggle")
    /\ call.value = 64
    /\ call.before[CallCfg.name] = TRUE
    /\ input[CallCfg.name] = FALSE

\* C5: on a Momentary key the bound field equals (byte >= 0x40) after every
\* call, whatever it was before; a release sets it to false.
C5_MomentaryFollowsByte ==
    CallIsBool("Momentary") => input[CallCfg.name] = (call.value >= 64)

C5_Witness ==
    /\ CallIsBool("Momentary")
    /\ call.value = 63
    /\ call.before[CallCfg.name] = TRUE
    /\ input[CallCfg.name] = FALSE

\* C8: on an Enum key with an ordered subset, a press with the field at
\* values[i] sets it to values[(i+1) mod len]; a release leaves it unchanged.
C8_EnumPressAdvancesWithWrap ==
    (CallIsEnum /\ OrderedSubset(CallCfg.values)) =>
        IF call.value >= 64
        THEN \A i \in 1..Len(CallCfg.values) :
                to_name(call.before[CallCfg.name]) = CallCfg.values[i]
                => to_name(input[CallCfg.name])
                     = CallCfg.values[(i % Len(CallCfg.values)) + 1]
        ELSE input[CallCfg.name] = call.before[CallCfg.name]

C8_Witness ==
    /\ CallIsEnum
    /\ Len(CallCfg.values) = 3
    /\ call.value >= 64
    /\ to_name(call.before[CallCfg.name]) = CallCfg.values[3]
    /\ to_name(input[CallCfg.name]) = CallCfg.values[1]

\* C9: on an Enum key, a press while the field's value is not in the
\* configured subset sets the field to the first value of the subset.
C9_EnumPressAbsentSetsFirst ==
    (/\ CallIsEnum
     /\ OrderedSubset(CallCfg.values)
     /\ call.value >= 64
     /\ ~Member(CallCfg.values, to_name(call.before[CallCfg.name])))
    => to_name(input[CallCfg.name]) = CallCfg.values[1]

C9_Witness ==
    /\ CallIsEnum
    /\ OrderedSubset(CallCfg.values)
    /\ call.value >= 64
    /\ ~Member(CallCfg.values, to_name(call.before[CallCfg.name]))
    /\ to_name(input[CallCfg.name]) = CallCfg.values[1]
    /\ call.before[CallCfg.name] # "WaveForm::Sine"

\* C10 as stated: on an Enum key update_state leaves the field as it was
\* when the field's value is absent from the subset, as it does on a release.
C10_EnumAbsentDoesNothing ==
    (/\ CallIsEnum
     /\ \/ call.value < 64
        \/ ~Member(CallCfg.values, to_name(call.before[CallCfg.name])))
    => input[CallCfg.name] = call.before[CallCfg.name]

\* C10 amended: on an Enum key with an ordered subset, a release leaves the
\* whole parameter set unchanged, also when the field's value is absent from
\* the subset; a press with the value absent changes the bound field, and
\* only it, to the first value of the subset.
C10_EnumReleaseKeepsAbsentPressSetsFirst ==
    (CallIsEnum /\ OrderedSubset(CallCfg.values)) =>
        /\ call.value < 64 => input = call.before
        /\ (/\ call.value >= 64
            /\ ~Member(CallCfg.values, to_name(call.before[CallCfg.name])))
           => input = [call.before EXCEPT
                         ![CallCfg.name] = from_name(CallCfg.values[1])]

C10_Witness ==
    /\ CallIsEnum
    /\ call.value = 63
    /\ ~Member(CallCfg.values, to_name(call.before[CallCfg.name]))
    /\ input = call.before

----------------------------------------------------------------------------
(* Spec: the two callbacks of run_synth and the parameter mutex.           *)

\* the byte messages the MIDI port delivers
MidiCalls ==
    {<<k, v>> \in {1, 5, 33, 49, 65, 50, 66} \X {0, 63, 64, 127, 255} :
        IF k = 1 THEN v \in {0, 127, 255} ELSE v \in {0, 64}}
MidiMessages ==
    {<<176, c[1], c[2]>> : c \in MidiCalls}
    \cup {<< >>, <<176>>, <<176, 1>>, <<177, 1, 127>>, <<176, 120, 0>>,
          <<144, 60, 100>>, <<240, 66, 247>>, <<248>>, <<247>>}

\* the MIDI callback is invoked with a message and decodes it; a message
\* that does not decode is reported and dropped, and a panic of the decoder
\* ends the callback
MidiReceive_LocksFirst(bytes) ==
    /\ midiPc = "idle"
    /\ message' = bytes
    /\ midiPc' = IF try_from(bytes).kind = "Panic" THEN "panicked" ELSE "lock"
    /\ UNCHANGED <<ctlVars, lock, clone, sent, audioPc, frame, decVars, bufVars,
                   rackVars, cfgVars>>
MidiReceive(bytes) ==
    /\ midiPc = "idle"
    /\ message' = bytes
    /\ midiPc' = CASE try_from(bytes).kind = "ParseError" -> "idle"
                    [] try_from(bytes).kind = "Panic" -> "panicked"
                    [] OTHER -> "lock"
    /\ UNCHANGED <<ctlVars, lock, clone, sent, audioPc, frame, decVars, bufVars,
                   rackVars, cfgVars>>

\* `let mut input = input.lock().unwrap()`
MidiLock ==
    /\ midiPc = "lock"
    /\ lock = "free"
    /\ lock' = "midi"
    /\ midiPc' = "locked"
    /\ UNCHANGED <<ctlVars, message, clone, sent, audioPc, frame, decVars, bufVars,
                   rackVars, cfgVars>>

\* the match on the message, `input.clone()`, and the guard dropped; a panic
\* of update_state unwinds the callback with the guard alive, which poisons
\* the mutex
MidiUpdate_KeepsLock ==
    /\ midiPc = "locked"
    /\ LET m == try_from(message)
           reaches == m.kind = "ControlChange" /\ m.ch = 0
           panic == IF reaches
                    THEN UpdateFailure(inputs, input, m.num, m.value)
                    ELSE "None"
       IN IF panic # "None"
          THEN /\ failure' = panic
               /\ lock' = "poisoned"
               /\ midiPc' = "panicked"
               /\ UNCHANGED <<input, clone>>
          ELSE /\ input' = IF reaches
                           THEN update_state(inputs, input, m.num, m.value)
                           ELSE input
               /\ clone' = input'
               /\ lock' = lock
               /\ midiPc' = "output"
               /\ failure' = failure
    /\ UNCHANGED <<inputs, outputs, call, prevPress, flips, edges,
                   message, sent, audioPc, frame, decVars, bufVars,
                   rackVars, setup, defined>>
MidiUpdate_ClonesFirst ==
    /\ midiPc = "locked"
    /\ LET m == try_from(message)
           reaches == m.kind = "ControlChange" /\ m.ch = 0
           panic == IF reaches
                    THEN UpdateFailure(inputs, input, m.num, m.value)
                    ELSE "None"
       IN IF panic # "None"
          THEN /\ failure' = panic
               /\ lock' = "poisoned"
               /\ midiPc' = "panicked"
               /\ UNCHANGED <<input, clone>>
          ELSE /\ input' = IF reaches
                           THEN update_state(inputs, input, m.num, m.value)
                           ELSE input
               /\ clone' = input
               /\ lock' = "free"
               /\ midiPc' = "output"
               /\ failure' = failure
    /\ UNCHANGED <<inputs, outputs, call, prevPress, flips, edges,
                   message, sent, audioPc, frame, decVars, bufVars,
                   rackVars, setup, defined>>
MidiUpdate_AnyChannel ==
    /\ midiPc = "locked"
    /\ LET m == try_from(message)
           reaches == m.kind = "ControlChange" /\ m.ch \in 0..15
           panic == IF reaches
                    THEN UpdateFailure(inputs, input, m.num, m.value)
                    ELSE "None"
       IN IF panic # "None"
          THEN /\ failure' = panic
               /\ lock' = "poisoned"
               /\ midiPc' = "panicked"
               /\ UNCHANGED <<input, clone>>
          ELSE /\ input' = IF reaches
                           THEN update_state(inputs, input, m.num, m.value)
                           ELSE input
               /\ clone' = input'
               /\ lock' = "free"
               /\ midiPc' = "output"
               /\ failure' = failure
    /\ UNCHANGED <<inputs, outputs, call, prevPress, flips, edges,
                   message, sent, audioPc, frame, decVars, bufVars,
                   rackVars, setup, defined>>
MidiUpdate ==
    /\ midiPc = "locked"
    /\ LET m == try_from(message)
           reaches == m.kind = "ControlChange" /\ m.ch = 0
           panic == IF reaches
                    THEN UpdateFailure(inputs, input, m.num, m.value)
                    ELSE "None"
       IN IF panic # "None"
          THEN /\ failure' = panic
               /\ lock' = "poisoned"
               /\ midiPc' = "panicked"
               /\ UNCHANGED <<input, clone>>
          ELSE /\ input' = IF reaches
                           THEN update_state(inputs, input, m.num, m.value)
                           ELSE input
               /\ clone' = input'
               /\ lock' = "free"
               /\ midiPc' = "output"
               /\ failure' = failure
    /\ UNCHANGED <<inputs, outputs, call, prevPress, flips, edges,
                   message, sent, audioPc, frame, decVars, bufVars,
                   rackVars, setup, defined>>

\* `output(&state_out, &input, &mut midi_out).expect("LED update failed")` on
\* the clone: the callback returns, or panics when the sink returned Err
MidiOutput(failAt) ==
    /\ midiPc = "output"
    /\ sent' = OutputUntil(outputs, clone, failAt)
    /\ IF failAt = 0 \/ failAt > Len(outputs)
       THEN message' = << >> /\ midiPc' = "idle"
       ELSE message' = message /\ midiPc' = "panicked"
    /\ UNCHANGED <<ctlVars, lock, clone, audioPc, frame, decVars, bufVars,
                   rackVars, cfgVars>>

\* the audio callback is invoked: `let input = input.lock().unwrap()`, then
\* the first rack.update(input) of the loop is under way
AudioLock ==
    /\ audioPc = "idle"
    /\ lock = "free"
    /\ lock' = "audio"
    /\ audioPc' = "tick"
    /\ frame' = 0
    /\ snapshot' = <<input>>
    /\ used' = << >>
    /\ data' = EmptyBuffer
    /\ UNCHANGED <<ctlVars, midiPc, message, clone, sent, decVars, rackVars, cfgVars>>

\* the audio callback is invoked after a panic poisoned the mutex:
\* `input.lock()` is Err(PoisonError) and `.unwrap()` panics
AudioLockPoisoned ==
    /\ audioPc = "idle"
    /\ lock = "poisoned"
    /\ audioPc' = "panicked"
    /\ UNCHANGED <<ctlVars, lock, midiPc, message, clone, sent, frame, decVars,
                   bufVars, rackVars, cfgVars>>

\* one frame: rack.update(input) returns and the frame's samples are written;
\* the next tick starts unless the buffer is full (the tick itself is
\* modelled by RackUpdate in SpecRack)
AudioFrame ==
    /\ audioPc = "tick"
    /\ frame' = frame + 1
    /\ used' = Append(used, input)
    /\ data' = WriteFrame(data, frame, frame + 1)
    /\ audioPc' = IF frame + 1 < FramesPerBuffer THEN "tick" ELSE "done"
    /\ UNCHANGED <<ctlVars, lock, midiPc, message, clone, sent, decVars, snapshot,
                   rackVars, cfgVars>>

\* the closure returns and the MutexGuard bound by `let input` is dropped
AudioReturn ==
    /\ audioPc = "done"
    /\ audioPc' = "idle"
    /\ lock' = "free"
    /\ frame' = 0
    /\ snapshot' = << >>
    /\ used' = << >>
    /\ data' = EmptyBuffer
    /\ UNCHANGED <<ctlVars, midiPc, message, clone, sent, decVars, rackVars, cfgVars>>

Init == CtlInit /\ ThreadInit /\ RackIdle /\ Running

Next ==
    \/ \E bytes \in MidiMessages : MidiReceive(bytes)
    \/ MidiLock
    \/ MidiUpdate
    \/ \E failAt \in SinkErrAt : MidiOutput(failAt)
    \/ AudioLock
    \/ AudioLockPoisoned
    \/ AudioFrame
    \/ AudioReturn

Spec == Init /\ [][Next]_vars

\* C1: the audio callback never holds the parameter lock while a rack tick
\* is being evaluated (the lock is released before the per-sample loop).
C1_LockNotHeldDuringTick == ~(audioPc = "tick" /\ lock = "audio")

\* C6: after the MIDI callback applied a control change on a key bound as
\* Float, the bound field is byte / 127 (0 -> 0.0, 127 -> 1.0), whatever it
\* was before; the bytes [0xB0, 0x01, 0x7F] leave vco1_freq = 1.0.
C6_FloatIsByteOver127 ==
    midiPc = "output" =>
        LET m == try_from(message)
        IN /\ (/\ m.kind = "ControlChange"
               /\ m.ch = 0
               /\ m.num \in DOMAIN inputs
               /\ inputs[m.num].type = "F32")
              => /\ input[inputs[m.num].name] * 127 = m.value * FloatScale
                 /\ m.value = 0 => input[inputs[m.num].name] = 0
                 /\ m.value = 127 => input[inputs[m.num].name] = FloatScale
           /\ (message = <<176, 1, 127>> /\ inputs[1] = F32Config("vco1_freq"))
              => input.vco1_freq = FloatScale

C6_Witness ==
    /\ midiPc = "output"
    /\ message = <<176, 1, 127>>
    /\ inputs[1] = F32Config("vco1_freq")
    /\ input.vco1_freq = FloatScale
    /\ clone.vco1_freq = FloatScale

\* C7: every float field of the parameter set stays within [0, 1].
C7_FloatFieldsInUnitRange ==
    \A n \in F32Fields : 0 <= input[n] /\ input[n] <= FloatScale

\* the last output pass ran to its end (every sink call returned Ok) and no
\* later update is waiting for its own pass
PassDone == midiPc \in {"idle", "lock", "locked"}

\* the boolean entry i of outputs is to display for state
Lit(i, state) ==
    IF outputs[i].type = "Bool"
    THEN state[outputs[i].name]
    ELSE Member(outputs[i].values, to_name(state[outputs[i].name]))

\* C11: an output pass whose sink calls all succeed calls the sink exactly
\* once per configured entry, in definition order, with the entry's key and,
\* for a Bool entry, the field's value, for an Enum entry, whether the
\* field's value is a member of the entry's subset (field Triangle with
\* entries {Sine,Triangle} -> 33 and {Sawtooth} -> 49 reports (33, true) then
\* (49, false)); the pass leaves the state it reads unchanged.
C11_OutputOncePerEntryInOrder ==
    /\ [](PassDone =>
            /\ Len(sent) = Len(outputs)
            /\ \A i \in 1..Len(outputs) :
                  sent[i] = <<176, outputs[i].out,
                              IF Lit(i, clone) THEN 127 ELSE 0>>
            /\ (outputs = ShippedOutputs
                 /\ clone.vco1_waveform = "WaveForm::Triangle")
                => sent[4] = <<176, 33, 127>> /\ sent[5] = <<176, 49, 0>>)
    /\ [][midiPc = "output" => clone' = clone /\ input' = input]_vars

C11_Witness ==
    /\ PassDone
    /\ outputs = ShippedOutputs
    /\ clone.vco1_waveform = "WaveForm::Triangle"
    /\ clone.eg1_repeat
    /\ sent[4] = <<176, 33, 127>>
    /\ sent[5] = <<176, 49, 0>>
    /\ sent[8] = <<176, 50, 127>>

\* the entries of outputs that report the enum parameter p
EntriesOf(p) ==
    {i \in 1..Len(outputs) : outputs[i].type = "Enum" /\ outputs[i].name = p}
DisjointSubsets(p) ==
    \A i, j \in EntriesOf(p) :
        i # j => ~\E k \in 1..Len(outputs[i].values) :
                    Member(outputs[j].values, outputs[i].values[k])
\* the entries of p whose last message of the pass was "lit"
LitEntries(p) == {i \in EntriesOf(p) \cap DOMAIN sent : sent[i][3] = 127}

\* C12: when the output entries of one enum parameter have pairwise disjoint
\* subsets, at most one of them is reported lit in any output pass; with the
\* shipped bindings exactly one of the three indicators of lfo1_waveform and
\* exactly one of the three of vco1_waveform is lit after every pass.
C12_DisjointSubsetsOneLit ==
    \A p \in {"lfo1_waveform", "vco1_waveform"} :
        /\ DisjointSubsets(p) => Cardinality(LitEntries(p)) <= 1
        /\ (outputs = ShippedOutputs /\ midiPc # "panicked")
           => Cardinality(LitEntries(p)) = 1

C12_Witness ==
    /\ PassDone
    /\ outputs = ShippedOutputs
    /\ clone.vco1_waveform = "WaveForm::Noise"
    /\ LitEntries("vco1_waveform") = {6}
    /\ LitEntries("lfo1_waveform") = {1}

----------------------------------------------------------------------------
(* SpecRack: racks declared with define_rack! and their update.  A unit    *)
(* declaration names the unit, its module type, the units whose out its    *)
(* input sources read (`rack.<unit>.borrow().out`) and, for a Buf, the     *)
(* in_value expression.  Samples are small integers, all different from    *)
(* the default out 0.  What a VCO, EG or IIRLPF computes from its inputs   *)
(* is left open here (any sample).                                         *)

Unit(name, kind, reads, expr) ==
    [name |-> name, kind |-> kind, reads |-> reads, expr |-> expr]

Samples == {1, 2}

\* define_rack! { MyRack: Rack<Input>(rack, input) { lfo1, vco1, eg1, vca1, lpf1 } }
MyRack ==
    << Unit("lfo1", "VCO", << >>, "dsp"),
       Unit("vco1", "VCO", <<"lfo1">>, "dsp"),
       Unit("eg1", "EG", << >>, "dsp"),
       Unit("vca1", "Buf", <<"vco1", "eg1">>, "product"),
       Unit("lpf1", "IIRLPF", <<"lfo1", "vca1">>, "dsp") >>

\* a chain of three Buf units, a: { input.x }, b: { rack.a.borrow().out },
\* c: { rack.b.borrow().out }, declared in any of the six orders
ChainUnits ==
    {Unit("a", "Buf", << >>, "input"),
     Unit("b", "Buf", <<"a">>, "copy"),
     Unit("c", "Buf", <<"b">>, "copy")}
ChainRacks ==
    {d \in [1..3 -> ChainUnits] : \A i, j \in 1..3 : d[i] = d[j] => i = j}

\* a Buf with self-feedback, f: { rack.a.borrow().out * rack.f.borrow().out },
\* declared after or before the unit a it also reads
FeedbackUnits ==
    {Unit("a", "Buf", << >>, "input"),
     Unit("f", "Buf", <<"a", "f">>, "product")}
FeedbackRacks ==
    {d \in [1..2 -> FeedbackUnits] : d[1] # d[2]}

Racks == ChainRacks \cup {MyRack} \cup FeedbackRacks

Names(decl) == {decl[i].name : i \in 1..Len(decl)}
DspNames(decl) == {decl[i].name : i \in {j \in 1..Len(decl) : decl[j].expr = "dsp"}}

\* Module::update of one unit: the value written to self.out, given the outs
\* its input sources read, the parameter x and the sample a DSP unit computes
ModuleOut(u, read, x, dsp) ==
    CASE u.expr = "input" -> x
      [] u.expr = "copy" -> read[1]
      [] u.expr = "product" -> read[1] * read[2]
      [] u.expr = "dsp" -> dsp[u.name]

\* `rack.<name>.borrow()` while the unit `borrowed` is mutably borrowed
BorrowFails(name, borrowed) == name = borrowed

\* one block of Rack::update: borrow the unit mutably, evaluate its input
\* sources against the rack as it is now, write its out; a source that
\* borrows the unit under update panics, and the panic ends the tick
ModuleStep_TwoPhase(st, u, x, dsp) ==
    LET read == [k \in 1..Len(u.reads) |-> st.before[u.reads[k]]]
    IN [st EXCEPT !.out[u.name] = ModuleOut(u, read, x, dsp),
                  !.seen[u.name] = read,
                  !.log = Append(@, u.name)]
ModuleStep_SharedBorrow(st, u, x, dsp) ==
    LET read == [k \in 1..Len(u.reads) |-> st.out[u.reads[k]]]
    IN IF st.failure # "None"
       THEN st
       ELSE [st EXCEPT !.out[u.name] = ModuleOut(u, read, x, dsp),
                       !.seen[u.name] = read,
                       !.log = Append(@, u.name)]
ModuleStep(st, u, x, dsp) ==
    LET read == [k \in 1..Len(u.reads) |-> st.out[u.reads[k]]]
    IN IF st.failure # "None"
       THEN st
       ELSE IF \E k \in 1..Len(u.reads) : BorrowFails(u.reads[k], u.name)
            THEN [st EXCEPT !.failure = u.name]
            ELSE [st EXCEPT !.out[u.name] = ModuleOut(u, read, x, dsp),
                            !.seen[u.name] = read,
                            !.log = Append(@, u.name)]

\* Rack::update: the blocks of the first n declared units, in declared order
RECURSIVE RackFold(_, _, _, _, _)
RackFold(decl, n, st, x, dsp) ==
    IF n = 0
    THEN st
    ELSE ModuleStep(RackFold(decl, n - 1, st, x, dsp), decl[n], x, dsp)

\* rack.update(input): one tick; tick counts the ticks that returned, and a
\* tick that panicked is the last one (it unwinds the audio callback)
RackUpdate(x, dsp) ==
    /\ tick < MaxTicks
    /\ rackFailure = "None"
    /\ LET st == RackFold(rack, Len(rack),
                          [out |-> out, seen |-> seen, log |-> << >>,
                           before |-> out, failure |-> "None"],
                          x, dsp)
       IN /\ out' = st.out
          /\ seen' = st.seen
          /\ log' = st.log
          /\ rackFailure' = st.failure
          /\ tick' = IF st.failure = "None" THEN tick + 1 ELSE tick
    /\ outBefore' = out
    /\ UNCHANGED <<rack, ctlVars, threadVars, cfgVars, egVars, vcoVars, lpfVars>>

\* MyRack::new(): every out is the default 0.0
RackInit ==
    /\ rack \in Racks
    /\ out = [n \in Names(rack) |-> 0]
    /\ seen = [n \in Names(rack) |-> << >>]
    /\ tick = 0
    /\ log = << >>
    /\ outBefore = [n \in Names(rack) |-> 0]
    /\ rackFailure = "None"
    /\ EGInit
    /\ VCOInit(VCOUnit(1, 1000))
    /\ LPFInit

InitRack ==
    /\ input = InputDefault
    /\ inputs = ShippedInputs
    /\ outputs = ShippedOutputs
    /\ call = NoCall
    /\ prevPress = [k \in CtlKeys |-> FALSE]
    /\ flips = [k \in CtlKeys |-> 0]
    /\ edges = [k \in CtlKeys |-> 0]
    /\ ThreadInit
    /\ RackInit
    /\ Running

NextRack == \E x \in Samples, dsp \in [DspNames(rack) -> Samples] : RackUpdate(x, dsp)

SpecRack == InitRack /\ [][NextRack]_vars

Position(decl, name) == CHOOSE i \in 1..Len(decl) : decl[i].name = name

\* C2: a tick updates every unit exactly once, in declared order; a consumer
\* reading a producer's out sees the out computed in this tick when the
\* producer is declared before it, and the out of the previous tick (the
\* default 0 at the first tick) when the producer is declared after it.
C2_DeclaredOrderDecidesCoupling ==
    tick >= 1 =>
        /\ log = [i \in 1..Len(rack) |-> rack[i].name]
        /\ \A j \in 1..Len(rack) : \A k \in 1..Len(rack[j].reads) :
              LET i == Position(rack, rack[j].reads[k])
                  got == seen[rack[j].name][k]
              IN /\ i < j => got = out[rack[i].name]
                 /\ i > j => got = outBefore[rack[i].name]
                 /\ (i > j /\ tick = 1) => got = 0
                 /\ rack[j].expr = "copy" => out[rack[j].name] = got

C2_Witness ==
    /\ tick = 2
    /\ log = <<"b", "a", "c">>
    /\ out["a"] # outBefore["a"]
    /\ out["b"] = outBefore["a"]
    /\ out["c"] = out["b"]

----------------------------------------------------------------------------
(* SpecCfg: start-up.  The binding tables are built by define_input,       *)
(* define_output and the entries of a configuration file (setup_state_io), *)
(* then the first output pass is sent and update_state is called.          *)

\* StateInput::field_type as config.rs uses it: the kind of the accessor
\* registered under name, or None
field_type(name) == IF name \in FieldNames THEN accessors[name] ELSE "None"

\* `x as u8`
ToU8(x) == x % 256

\* self.inputs.insert(key, input) / self.outputs.push(output)
define_input_KeepsFirst(self_inputs, key, cfg) == self_inputs @@ (key :> cfg)
define_input(self_inputs, key, cfg) == (key :> cfg) @@ self_inputs
define_output(self_outputs, cfg) == Append(self_outputs, cfg)

\* a value of the `keys` table of the configuration file; an optional
\* member is a sequence of length 0 or 1
TomlValue(shape, key, mode, led, items) ==
    [shape |-> shape, key |-> key, mode |-> mode, out |-> led, items |-> items]
TomlInteger(n) == TomlValue("integer", <<n>>, << >>, << >>, << >>)
TomlString == TomlValue("string", << >>, << >>, << >>, << >>)
TomlTable(key, mode, led) == TomlValue("table", key, mode, led, << >>)
TomlArray(items) == TomlValue("array", << >>, << >>, << >>, items)
TomlItem(key, led, values) == [key |-> key, out |-> led, values |-> values]

IoOk(ins, outs) == [ok |-> TRUE, inputs |-> ins, outputs |-> outs]
IoErr(ins, outs) == [ok |-> FALSE, inputs |-> ins, outputs |-> outs]

\* the Bool arm of setup_state_io
SetupBool(io, name, value) ==
    IF value.shape # "table" THEN IoErr(io.inputs, io.outputs)
    ELSE IF Len(value.key) = 1
              /\ (Len(value.mode) = 0
                  \/ value.mode[1] \notin {"toggle", "momentary"})
         THEN IoErr(io.inputs, io.outputs)
    ELSE LET mode == IF value.mode[1] = "toggle" THEN "Toggle" ELSE "Momentary"
             ins == IF Len(value.key) = 1
                    THEN define_input(io.inputs, ToU8(value.key[1]),
                                      BoolConfig(name, mode))
                    ELSE io.inputs
             outs == IF Len(value.out) = 1
                     THEN define_output(io.outputs,
                                        BoolOutput(name, ToU8(value.out[1])))
                     ELSE io.outputs
         IN IoOk(ins, outs)

\* the Enum arm of setup_state_io: the first n tables of the array, an item
\* without `values` ending the function with an error
RECURSIVE SetupEnum(_, _, _, _)
SetupEnum(io, name, items, n) ==
    IF n = 0
    THEN io
    ELSE LET done == SetupEnum(io, name, items, n - 1)
             v == items[n]
         IN IF ~done.ok THEN done
            ELSE IF Len(v.values) = 0 THEN IoErr(done.inputs, done.outputs)
            ELSE IoOk(IF Len(v.key) = 1
                      THEN define_input(done.inputs, ToU8(v.key[1]),
                                        EnumConfig(name, v.values[1]))
                      ELSE done.inputs,
                      IF Len(v.out) = 1
                      THEN define_output(done.outputs,
                             EnumOutput(name, v.values[1], ToU8(v.out[1])))
                      ELSE done.outputs)

\* one iteration of the loop of setup_state_io over config.keys
setup_state_io(io, name, value) ==
    CASE field_type(name) = "None" -> IoErr(io.inputs, io.outputs)
      [] field_type(name) = "F32" ->
           IF value.shape # "integer"
           THEN IoErr(io.inputs, io.outputs)
           ELSE IoOk(define_input(io.inputs, ToU8(value.key[1]), F32Config(name)),
                     io.outputs)
      [] field_type(name) = "Bool" -> SetupBool(io, name, value)
      [] field_type(name) = "Enum" ->
           IF value.shape # "array"
           THEN IoErr(io.inputs, io.outputs)
           ELSE SetupEnum(io, name, value.items, Len(value.items))

\* the calls of the start-up code explored
DefInputs ==
    {<<1, F32Config("vco1_freq")>>,
     <<1, BoolConfig("vco1_freq", "Toggle")>>,
     <<50, BoolConfig("eg1_gate", "Momentary")>>,
     <<33, EnumConfig("eg1_gate", <<"Sine", "Square">>)>>,
     <<33, F32Config("nosuch")>>}
DefOutputs ==
    {BoolOutput("eg1_gate", 50),
     BoolOutput("vco1_waveform", 33),
     EnumOutput("vco1_waveform", <<"Sine", "Square">>, 33),
     BoolOutput("nosuch", 50)}
ConfigKeys ==
    {<<"vco1_freq", TomlInteger(1)>>,
     <<"vco1_freq", TomlInteger(257)>>,
     <<"vco1_freq", TomlInteger(200)>>,
     <<"vco1_freq", TomlInteger(-1)>>,
     <<"eg1_gate", TomlTable(<< >>, << >>, <<306>>)>>,
     <<"vco1_freq", TomlString>>,
     <<"eg1_gate", TomlTable(<<50>>, <<"toggle">>, <<50>>)>>,
     <<"eg1_gate", TomlTable(<<50>>, << >>, <<50>>)>>,
     <<"vco1_waveform",
       TomlArray(<<TomlItem(<<33>>, <<33>>, << <<"Sine", "Square">> >>),
                   TomlItem(<< >>, <<49>>, << <<"Sawtooth">> >>)>>)>>,
     <<"nosuch", TomlInteger(1)>>}
\* output entries defined before the start-up code stops adding more
MaxOutputs == 2

\* state_in.define_input(key, cfg): panics on an unregistered name
DefineInput(key, cfg) ==
    /\ setup = "defining"
    /\ defined' = [op |-> "define_input", name |-> cfg.name]
    /\ IF assert_has_field(cfg.name)
       THEN inputs' = define_input(inputs, key, cfg) /\ setup' = setup
       ELSE inputs' = inputs /\ setup' = "rejected"
    /\ UNCHANGED <<input, outputs, call, prevPress, flips, edges,
                   threadVars, rackVars, failure>>

\* state_out.define_output(cfg): panics on an unregistered name
DefineOutput(cfg) ==
    /\ setup = "defining"
    /\ Len(outputs) < MaxOutputs
    /\ defined' = [op |-> "define_output", name |-> cfg.name]
    /\ IF assert_has_field(cfg.name)
       THEN outputs' = define_output(outputs, cfg) /\ setup' = setup
       ELSE outputs' = outputs /\ setup' = "rejected"
    /\ UNCHANGED <<input, inputs, call, prevPress, flips, edges,
                   threadVars, rackVars, failure>>

\* setup_state_io reaches the entry name = value of config.keys
SetupStateIo(name, value) ==
    /\ setup = "defining"
    /\ Len(outputs) < MaxOutputs
    /\ defined' = [op |-> "setup_state_io", name |-> name]
    /\ LET io == setup_state_io(IoOk(inputs, outputs), name, value)
       IN /\ inputs' = io.inputs
          /\ outputs' = io.outputs
          /\ setup' = IF io.ok THEN setup ELSE "rejected"
    /\ UNCHANGED <<input, call, prevPress, flips, edges,
                   threadVars, rackVars, failure>>

\* run_synth goes on: the first output pass, then the callbacks are connected
StartRunning ==
    /\ setup = "defining"
    /\ setup' = "running"
    /\ sent' = OutputUntil(outputs, input, FirstFailing(outputs))
    /\ failure' = IF FirstFailing(outputs) = 0
                  THEN "None"
                  ELSE EntryFailure(outputs[FirstFailing(outputs)])
    /\ UNCHANGED <<ctlVars, lock, midiPc, message, clone, audioPc, frame,
                   decVars, bufVars, rackVars, defined>>

CfgCalls == {<<1, 127>>, <<33, 64>>, <<50, 0>>, <<50, 127>>}

InitCfg ==
    /\ input = InputDefault
    /\ inputs = << >>
    /\ outputs = << >>
    /\ call = NoCall
    /\ prevPress = [k \in CtlKeys |-> FALSE]
    /\ flips = [k \in CtlKeys |-> 0]
    /\ edges = [k \in CtlKeys |-> 0]
    /\ ThreadInit
    /\ RackIdle
    /\ setup = "defining"
    /\ failure = "None"
    /\ defined = NoDefine

NextCfg ==
    \/ \E d \in DefInputs : DefineInput(d[1], d[2])
    \/ \E o \in DefOutputs : DefineOutput(o)
    \/ \E e \in ConfigKeys : SetupStateIo(e[1], e[2])
    \/ StartRunning
    \/ \E c \in CfgCalls : UpdateState(c[1], c[2])

SpecCfg == InitCfg /\ [][NextCfg]_vars

\* the names stored in the two binding tables
StoredNames ==
    {inputs[k].name : k \in DOMAIN inputs}
    \cup {outputs[i].name : i \in 1..Len(outputs)}

\* C13: a define_input, a define_output or a configuration entry whose
\* parameter name is not registered is rejected at definition time and stores
\* nothing; hence every stored input or output binding names a registered
\* field, and neither update_state nor output fails with an undefined field.
C13_UnknownNameRejectedNothingStored ==
    /\ [](/\ StoredNames \subseteq FieldNames
          /\ failure # "UndefinedField"
          /\ (defined.op # "none" /\ defined.name \notin FieldNames)
             => setup = "rejected")
    /\ [][(/\ setup = "defining"
            /\ defined'.op # "none"
            /\ defined'.name \notin FieldNames)
            => /\ setup' = "rejected"
               /\ inputs' = inputs
               /\ outputs' = outputs]_vars

C13_Witness ==
    /\ setup = "rejected"
    /\ defined = [op |-> "define_input", name |-> "nosuch"]
    /\ 1 \in DOMAIN inputs
    /\ 33 \notin DOMAIN inputs
    /\ Len(outputs) = 1

\* C14: every binding accepted by define_input / define_output has the kind
\* (Float, Bool, Enum) of the accessor registered under its name, and
\* update_state and output never reach the kind mismatch ("assertion error").
C14_AcceptedBindingsMatchKind ==
    /\ \A k \in DOMAIN inputs : accessors[inputs[k].name] = inputs[k].type
    /\ \A i \in 1..Len(outputs) : accessors[outputs[i].name] = outputs[i].type
    /\ failure # "AssertionError"

----------------------------------------------------------------------------
(* SpecEG: one EG unit ticked with any gate, repeat, a, d, s, r per tick,  *)
(* as its input sources may give them.                                     *)

\* EG ticks explored
MaxEgTicks == 6
\* the times (in sample periods) and sustain levels the sources give
EgTimes == {0, 2}
EgLevels == {Zero, Frac(1, 2), One}

\* the history of runs: a run of held gate starts at a tick that finds the
\* unit in Idle and lasts while gate stays true and a, d, s stay the same; a
\* quiet run lasts while gate and repeat are false and r stays the same
RunAfter(run, e, in, after) ==
    LET starts == e.state = "Idle" /\ in.gate
        goesOn == /\ run.held > 0
                  /\ in.gate
                  /\ in.a = run.a /\ in.d = run.d /\ in.s = run.s
        silent == ~in.gate /\ ~in.repeat
    IN [held |-> IF starts THEN 1 ELSE IF goesOn THEN run.held + 1 ELSE 0,
        a |-> IF starts \/ goesOn THEN in.a ELSE 0,
        d |-> IF starts \/ goesOn THEN in.d ELSE 0,
        s |-> IF starts \/ goesOn THEN in.s ELSE Zero,
        passed |-> IF starts THEN {after.state}
                   ELSE IF goesOn THEN run.passed \cup {after.state} ELSE {},
        quiet |-> IF silent
                  THEN (IF run.quiet > 0 /\ in.r = run.r THEN run.quiet + 1 ELSE 1)
                  ELSE 0,
        r |-> IF silent THEN in.r ELSE 0]

\* Module::update(&mut eg, rack, input)
EGTick(gate, repeat, a, d, s, r) ==
    LET in == EGInputs(gate, repeat, a, d, s, r)
    IN /\ egTicks < MaxEgTicks
       /\ egPrev' = eg
       /\ egMid' = EGTransition(eg, in)
       /\ eg' = EGAdvance(EGOutput(egMid', in))
       /\ egIn' = in
       /\ egRun' = RunAfter(egRun, eg, in, eg')
       /\ egTicks' = egTicks + 1
       /\ UNCHANGED <<ctlVars, threadVars, cfgVars, patchVars, vcoVars, lpfVars>>

InitEG == CtlInit /\ ThreadInit /\ RackIdle /\ Running /\ inputs = ShippedInputs

NextEG ==
    \E gate \in BOOLEAN, repeat \in BOOLEAN, a \in EgTimes, d \in EgTimes,
       s \in EgLevels, r \in EgTimes :
        EGTick(gate, repeat, a, d, s, r)

SpecEG == InitEG /\ [][NextEG]_vars

\* the edges of the EG state machine
EGEdges ==
    {<<"Idle", "A">>, <<"A", "R">>, <<"A", "D">>, <<"D", "R">>, <<"D", "S">>,
     <<"S", "R">>, <<"R", "Idle">>, <<"R", "A">>}

\* C15: in one tick the EG state stays or changes along one of the edges
\* Idle->A, A->R, A->D, D->R, D->S, S->R, R->Idle, R->A; on a taken edge the
\* clock is 0 when that tick's output is computed; the clock the tick ends
\* with is the clock the output was computed with plus one sample period.
C15_EdgesAndClock ==
    egTicks >= 1 =>
        /\ egPrev.state # eg.state =>
              /\ <<egPrev.state, eg.state>> \in EGEdges
              /\ egMid.clock = 0
        /\ egMid.state = eg.state
        /\ (egPrev.state = eg.state /\ eg.state # "Idle")
           => egMid.clock = egPrev.clock
        /\ eg.clock = (IF eg.state = "Idle" THEN 0 ELSE egMid.clock) + 1

C15_Witness ==
    /\ egPrev.state = "A"
    /\ egPrev.clock = 2
    /\ egIn.a = 2
    /\ eg.state = "D"
    /\ eg.clock = 1

\* C16 as stated: from Idle with constant a, d, s, once gate has been true on
\* every tick for a + d seconds the EG has passed Attack and Decay and is in
\* Sustain with out = s, and stays so while gate stays true.
C16_SustainAfterAPlusD ==
    (egRun.held >= 1 /\ egRun.held >= egRun.a + egRun.d) =>
        /\ eg.state = "S"
        /\ eg.out = egRun.s
        /\ {"A", "D"} \subseteq egRun.passed

\* C16 amended: the same once gate has been true on every tick for a + d
\* seconds and three sample periods more.
C16_SustainAfterAPlusDPlusThree ==
    egRun.held >= egRun.a + egRun.d + 3 =>
        /\ eg.state = "S"
        /\ eg.out = egRun.s
        /\ {"A", "D"} \subseteq egRun.passed

C16_Witness ==
    /\ egRun.held = 5
    /\ egRun.a = 0
    /\ egRun.d = 2
    /\ egRun.s = Frac(1, 2)
    /\ egRun.passed = {"A", "D", "S"}
    /\ egPrev.state = "S"
    /\ eg.state = "S"
    /\ eg.out = Frac(1, 2)

\* C17: on the tick in which the EG enters Release from Attack, Decay or
\* Sustain, the captured level and the out of that tick both equal the out
\* of the previous tick, for any r >= 0.
C17_NoJumpIntoRelease ==
    (egTicks >= 1 /\ egPrev.state \in {"A", "D", "S"} /\ eg.state = "R") =>
        /\ eg.level = egPrev.out
        /\ eg.out = egPrev.out

C17_Witness ==
    /\ egPrev.state = "A"
    /\ egPrev.out = Frac(1, 2)
    /\ egIn.r = 2
    /\ eg.state = "R"
    /\ eg.level = Frac(1, 2)
    /\ eg.out = Frac(1, 2)

\* C18: a tick with gate true that finds the EG in Release with clock < r
\* moves it to Attack with level equal to the out of the previous tick, and
\* when a > 0 the out of that tick equals that level.
C18_RetriggerKeepsLevel ==
    (/\ egTicks >= 1
     /\ egPrev.state = "R"
     /\ egIn.gate
     /\ egPrev.clock < egIn.r) =>
        /\ eg.state = "A"
        /\ eg.level = egPrev.out
        /\ egIn.a > 0 => eg.out = eg.level

C18_Witness ==
    /\ egPrev.state = "R"
    /\ egPrev.clock = 1
    /\ egIn.gate
    /\ egIn.r = 2
    /\ egIn.a = 2
    /\ eg.state = "A"
    /\ eg.level = Frac(1, 2)
    /\ eg.out = Frac(1, 2)

\* C19: while gate and repeat are false and r stays the same, a tick that
\* finds the EG in Release with clock >= r moves it to Idle, the EG is in
\* Idle after at most r + 2 such ticks, a tick that finds it in Idle leaves
\* it there, and in Idle out = 0 and level = 0.
C19_QuietReachesIdleAndStays ==
    (egTicks >= 1 /\ egRun.quiet >= 1) =>
        /\ (egPrev.state = "R" /\ egPrev.clock >= egIn.r) => eg.state = "Idle"
        /\ egRun.quiet >= egRun.r + 2 => eg.state = "Idle"
        /\ egPrev.state = "Idle" => eg.state = "Idle"
        /\ eg.state = "Idle" => eg.out = Zero /\ eg.level = Zero

C19_Witness ==
    /\ egRun.quiet = 3
    /\ egRun.r = 2
    /\ egPrev.state = "R"
    /\ egPrev.clock = 2
    /\ egPrev.out # Zero
    /\ eg.state = "Idle"
    /\ eg.out = Zero
    /\ eg.level = Zero

----------------------------------------------------------------------------
(* SpecVCO: one VCO unit ticked with any frequency input >= 0 and any      *)
(* waveform per tick.                                                      *)

\* VCO ticks explored
MaxVcoTicks == 3
\* the normalized frequency inputs (0.0 - 1.0 and above) and the values
\* rand::random() returns
VcoFreqInputs == {0, 1, 2}
VcoRandoms == {Zero, Frac(1, 2)}

VCOTick(x, wf, r) ==
    /\ vcoTicks < MaxVcoTicks
    /\ vcoPrev' = vco
    /\ vco' = VCOUpdate(vco, x, wf, r)
    /\ vcoIn' = VCOInputs(x, wf, r)
    /\ vcoTicks' = vcoTicks + 1
    /\ UNCHANGED <<ctlVars, threadVars, cfgVars, patchVars, egVars, lpfVars>>

InitVCO ==
    /\ CtlInit /\ ThreadInit /\ Running /\ inputs = ShippedInputs
    /\ PatchIdle /\ EGInit /\ LPFInit
    /\ \E unit \in VCOUnits : VCOInit(unit)

NextVCO ==
    \E x \in VcoFreqInputs, wf \in WaveForm, r \in VcoRandoms : VCOTick(x, wf, r)

SpecVCO == InitVCO /\ [][NextVCO]_vars

\* C20: after every VCO update the phase lies in [0, 2 pi), for any sequence
\* of frequency inputs >= 0 and any waveform selection.
C20_PhaseInRange ==
    vcoTicks >= 1 => 0 <= vco.phase /\ vco.phase < PhaseUnits

C20_Witness ==
    /\ vcoTicks >= 2
    /\ vcoIn.freq = 2
    /\ vcoPrev.phase
         + restore_freq(vco.freq_min, vco.freq_max, vcoIn.freq) >= 2 * PhaseUnits
    /\ vcoPrev.phase > 0
    /\ vco.phase >= 0
    /\ vco.phase < PhaseUnits

----------------------------------------------------------------------------
(* SpecLPF: one IIRLPF unit ticked with any sample and, per tick, one of   *)
(* two settings of cutoff and resonance.                                   *)

\* IIRLPF ticks explored
MaxLpfTicks == 4
\* the values <<k, d>> of 4 pi^2 fc^2 and 2 pi fc / q the sources give
LpfParams == {<<One, One>>, <<Frac(1, 2), Frac(1, 2)>>}
LpfSamples == {Zero, One, Frac(-1, 1)}

LPFTick(k, d, in_value) ==
    /\ Len(lpfXs) < MaxLpfTicks
    /\ lpf' = LPFUpdate(lpf, k, d, in_value)
    /\ lpfIn' = LPFInputs(k, d, in_value)
    /\ lpfXs' = Append(lpfXs, in_value)
    /\ lpfYs' = Append(lpfYs, lpf'.out)
    /\ lpfFixed' = (lpfFixed /\ (lpfXs = << >> \/ (lpfIn.k = k /\ lpfIn.d = d)))
    /\ UNCHANGED <<ctlVars, threadVars, cfgVars, patchVars, egVars, vcoVars>>

InitLPF == CtlInit /\ ThreadInit /\ RackIdle /\ Running /\ inputs = ShippedInputs

NextLPF == \E p \in LpfParams, x \in LpfSamples : LPFTick(p[1], p[2], x)

SpecLPF == InitLPF /\ [][NextLPF]_vars

\* x[n] and y[n] of the difference equation, 0 before the first sample
PastSample(history, n) == IF n >= 1 THEN history[n] ELSE Zero

\* b0 x[n] + b1 x[n-1] + b2 x[n-2] - a1 y[n-1] - a2 y[n-2]
DirectForm(c, n) ==
    FSub(FSub(FAdd(FAdd(FMul(c.b[1], PastSample(lpfXs, n)),
                        FMul(c.b[2], PastSample(lpfXs, n - 1))),
                   FMul(c.b[3], PastSample(lpfXs, n - 2))),
              FMul(c.a[2], PastSample(lpfYs, n - 1))),
         FMul(c.a[3], PastSample(lpfYs, n - 2)))

\* C21: with the same coefficients in every tick, each output is the
\* direct-form difference equation over the past inputs and outputs, taken
\* as 0 before the first sample; both delay lines are read newest-first
\* through buf_at, whose index stays inside the buffer for 0 <= n < len.
C21_DirectFormNewestFirst ==
    Len(lpfXs) >= 1 =>
        /\ lpf.out = lpfYs[Len(lpfYs)]
        /\ lpfFixed =>
              \A n \in 1..Len(lpfYs) :
                  lpfYs[n] = DirectForm(LPFCoefficients(lpfIn.k, lpfIn.d), n)
        /\ \A n \in 0..(Len(lpf.buf_b) - 1) :
              /\ buf_index(Len(lpf.buf_b), lpf.i_b, n) \in 0..(Len(lpf.buf_b) - 1)
              /\ buf_at(lpf.buf_b, lpf.i_b, n) = PastSample(lpfXs, Len(lpfXs) - n)
        /\ \A n \in 0..(Len(lpf.buf_a) - 1) :
              /\ buf_index(Len(lpf.buf_a), lpf.i_a, n) \in 0..(Len(lpf.buf_a) - 1)
              /\ buf_at(lpf.buf_a, lpf.i_a, n) = PastSample(lpfYs, Len(lpfYs) - n)

C21_Witness ==
    /\ Len(lpfXs) = 4
    /\ lpfFixed
    /\ lpfIn.k = Frac(1, 2)
    /\ lpfXs = <<One, Zero, Zero, One>>
    /\ lpfYs[2] # lpfYs[3]
    /\ lpfYs[3] # Zero
    /\ lpf.i_b = 1
    /\ lpf.out = DirectForm(LPFCoefficients(lpfIn.k, lpfIn.d), 4)

----------------------------------------------------------------------------
(* SpecDec: MidiMessage::try_from applied to any byte slice of up to       *)
(* MaxMessageLen bytes.                                                    *)

\* bytes per message explored
MaxMessageLen == 3
\* the bytes messages are made of: data bytes around 0x77 / 0x78, and the
\* status bytes 0x80, 0x90, 0xB0, 0xBF, 0xF0, 0xF7, 0xF8, 0xFE, 0xFF
Bytes == {0, 1, 119, 120, 127, 128, 144, 176, 191, 240, 247, 248, 254, 255}
ByteSlices == UNION {[1..n -> Bytes] : n \in 0..MaxMessageLen}

\* the callback is entered with a message that is not decoded yet
NotDecoded == [kind |-> "NotDecoded"]

\* `let message = MidiMessage::try_from(message)`
Decode ==
    /\ decoded = NotDecoded
    /\ decoded' = try_from(message)
    /\ UNCHANGED <<ctlVars, lock, midiPc, message, clone, sent, audioPc, frame,
                   bufVars, rackVars, cfgVars>>

InitDec ==
    /\ CtlInit /\ CallbacksIdle /\ RackIdle /\ Running /\ inputs = ShippedInputs
    /\ message \in ByteSlices
    /\ decoded = NotDecoded

NextDec == Decode

SpecDec == InitDec /\ [][NextDec]_vars

IsControlStatus(b) == b >= 176 /\ b <= 191

\* C22: a message with status 0xB0-0xBF decodes to ControlChange{ch = low
\* nibble of the status, num = byte 1, value = byte 2} exactly when byte 1
\* is <= 0x77 and byte 2 is present, and to Unknown(raw bytes) when byte 1 is
\* 0x78-0x7F; every decoded ControlChange has ch <= 15 and num <= 0x77.
C22_ControlChangeUpTo77 ==
    /\ (decoded # NotDecoded /\ Len(message) >= 1 /\ IsControlStatus(message[1])) =>
          /\ decoded.kind = "ControlChange"
               <=> (Len(message) >= 3 /\ message[2] <= 119)
          /\ decoded.kind = "ControlChange" =>
                decoded = ControlChange(message[1] % 16, message[2], message[3])
          /\ (Len(message) >= 2 /\ message[2] >= 120 /\ message[2] <= 127) =>
                decoded = Unknown(message)
    /\ decoded.kind = "ControlChange" =>
          /\ decoded.ch <= 15
          /\ decoded.num <= 119

C22_Witness ==
    /\ message = <<191, 119, 255>>
    /\ decoded = ControlChange(15, 119, 255)

\* C23: a message whose first byte is 0xF0 decodes to SysEx; the payload is
\* the bytes strictly between the leading 0xF0 and a trailing 0xF7 when the
\* last byte is 0xF7, and otherwise all bytes after the leading 0xF0.
C23_SysExPayload ==
    (decoded # NotDecoded /\ Len(message) >= 1 /\ message[1] = 240) =>
        decoded = SysEx(IF message[Len(message)] = 247
                        THEN SubSeq(message, 2, Len(message) - 1)
                        ELSE SubSeq(message, 2, Len(message)))

C23_Witness ==
    /\ message = <<240, 1, 247>>
    /\ decoded = SysEx(<<1>>)

\* C24: every non-empty message whose status byte is neither 0xB0-0xBF nor
\* 0xF0 (note-on 0x90, the real-time bytes 0xF8 and 0xFE, ...) decodes to
\* Unknown carrying the raw bytes unchanged.
C24_OtherStatusIsUnknown ==
    (/\ decoded # NotDecoded
     /\ Len(message) >= 1
     /\ ~IsControlStatus(message[1])
     /\ message[1] # 240)
    => decoded = Unknown(message)

\* C25: decoding returns the parse error exactly when the input is empty,
\* or the status is 0xB0-0xBF and the controller byte is missing, or the
\* status is 0xB0-0xBF, the controller is <= 0x77 and the value byte is
\* missing; every other input decodes to a message.
C25_ParseErrorExactlyWhenShort ==
    LET short == \/ Len(message) = 0
                 \/ Len(message) = 1 /\ IsControlStatus(message[1])
                 \/ /\ Len(message) = 2
                    /\ IsControlStatus(message[1])
                    /\ message[2] <= 119
    IN decoded # NotDecoded =>
          /\ decoded.kind = "ParseError" <=> short
          /\ ~short => decoded.kind \in {"ControlChange", "SysEx", "Unknown"}

----------------------------------------------------------------------------
(* Properties of the two callbacks of run_synth (Spec).                    *)

\* C26: a MIDI message that fails to decode is dropped: handling it leaves
\* the parameter set unchanged, never acquires the parameter lock, sends no
\* feedback message, and leaves the MIDI callback ready for the next message
\* and the audio callback where it was.
C26_DecodeFailureDropsMessage ==
    /\ [](midiPc \in {"lock", "locked", "output"}
            => try_from(message).kind # "ParseError")
    /\ [][(/\ midiPc = "idle"
            /\ message' # message
            /\ try_from(message').kind = "ParseError")
          => /\ input' = input
             /\ lock' = lock
             /\ sent' = sent
             /\ clone' = clone
             /\ midiPc' = "idle"
             /\ audioPc' = audioPc
             /\ frame' = frame]_vars

C26_Witness ==
    /\ midiPc = "idle"
    /\ message = <<176, 1>>
    /\ input.vco1_freq = FloatScale
    /\ lock = "audio"
    /\ audioPc = "tick"

\* C27: the MIDI callback holds the parameter lock only while it applies
\* update_state and clones the snapshot; the lock is released before any
\* feedback message is sent, so the MIDI thread never holds the lock while it
\* performs output I/O.
C27_LockReleasedBeforeFeedback ==
    /\ [](lock = "midi" <=> midiPc = "locked")
    /\ [][sent' # sent => lock # "midi" /\ lock' # "midi"]_vars

C27_Witness ==
    /\ midiPc = "output"
    /\ lock = "audio"
    /\ message = <<176, 1, 127>>
    /\ clone.vco1_freq = FloatScale

\* C28: within one audio callback every frame is computed from the parameter
\* values current when the callback acquired the lock; a MIDI update that
\* arrives while the buffer is evaluated changes no frame of it (the
\* parameter set does not change before the callback returns) and is in the
\* state the next callback acquires; each computed sample is written to both
\* channels of its frame.
C28_OneSnapshotPerBuffer ==
    /\ [](audioPc \in {"tick", "done"} =>
            /\ snapshot = <<input>>
            /\ Len(used) = frame
            /\ \A f \in 1..frame :
                  /\ used[f] = snapshot[1]
                  /\ \A c \in 1..Channels : data[Channels * (f - 1) + c] = f
            /\ \A i \in (Channels * frame + 1)..Len(data) : data[i] = 0)
    /\ [][(audioPc = "tick" \/ audioPc = "done") => (input' = input)]_vars
    /\ [][(audioPc = "idle" /\ audioPc' = "tick") => snapshot' = <<input>>]_vars

C28_Witness ==
    /\ audioPc = "done"
    /\ frame = FramesPerBuffer
    /\ midiPc = "lock"
    /\ message = <<176, 1, 127>>
    /\ input.vco1_freq = 0
    /\ used[FramesPerBuffer].vco1_freq = 0
    /\ data[Channels * FramesPerBuffer] = FramesPerBuffer

\* the keys feedback is sent to, and the last message of the pass on a key
OutputKeys == {outputs[i].out : i \in 1..Len(outputs)}
LastEntryOn(k) ==
    CHOOSE i \in 1..Len(outputs) :
        /\ outputs[i].out = k
        /\ \A j \in (i + 1)..Len(outputs) : outputs[j].out # k
Mirrors(state) ==
    /\ Len(sent) = Len(outputs)
    /\ \A k \in OutputKeys :
          sent[LastEntryOn(k)] =
              IF Lit(LastEntryOn(k), state) THEN <<176, k, 127>> ELSE <<176, k, 0>>

\* C29: one full output pass is sent for the initial state before any MIDI
\* message is processed; the snapshot the callback sends from is the
\* parameter state immediately after the message's update; and once the
\* callback has finished handling a decoded message, the last message sent on
\* each output key is [0xB0, num, 0x7F] or [0xB0, num, 0x00] according to that
\* output's mapping of this state.
C29_FeedbackMirrorsState ==
    /\ (input = InputDefault /\ midiPc = "idle" /\ Mirrors(InputDefault))
    /\ [](midiPc = "idle" => Mirrors(input))
    /\ [][midiPc = "locked" => (clone' = input')]_vars
    /\ [][(midiPc = "output" /\ midiPc' = "idle") => (Mirrors(clone))']_vars

C29_Witness ==
    /\ midiPc = "idle"
    /\ message = << >>
    /\ outputs = ShippedOutputs
    /\ input.vco1_waveform = "WaveForm::Sawtooth"
    /\ input.eg1_gate
    /\ sent[4] = <<176, 33, 0>>
    /\ sent[5] = <<176, 49, 127>>
    /\ sent[7] = <<176, 66, 127>>

----------------------------------------------------------------------------
(* Properties of the keys setup_state_io creates (SpecCfg).                *)

\* the integers a configuration value gives for input keys and for outputs
RECURSIVE ItemIntegers(_, _, _)
ItemIntegers(items, member, n) ==
    IF n = 0
    THEN {}
    ELSE ItemIntegers(items, member, n - 1)
         \cup {items[n][member][i] : i \in 1..Len(items[n][member])}
KeyIntegers(value) ==
    {value.key[i] : i \in 1..Len(value.key)}
    \cup ItemIntegers(value.items, "key", Len(value.items))
OutIntegers(value) ==
    {value.out[i] : i \in 1..Len(value.out)}
    \cup ItemIntegers(value.items, "out", Len(value.items))

\* C30: every Key setup_state_io creates from a configured integer is a
\* control-change number in 0-127 equal to that integer: an accepted entry
\* binds exactly its configured integers, none of them outside 0-127.
C30_KeyIsConfiguredInteger ==
    [][\A e \in ConfigKeys :
          (SetupStateIo(e[1], e[2]) /\ setup' = "defining") =>
              /\ \A n \in KeyIntegers(e[2]) \cup OutIntegers(e[2]) :
                    n >= 0 /\ n <= 127
              /\ \A n \in KeyIntegers(e[2]) :
                    n \in DOMAIN inputs' /\ inputs'[n].name = e[1]
              /\ \A k \in DOMAIN inputs' :
                    (k \notin DOMAIN inputs \/ inputs'[k].name = e[1])
                    => (k \in DOMAIN inputs /\ inputs[k].name = e[1])
                       \/ k \in KeyIntegers(e[2])
              /\ \A i \in (Len(outputs) + 1)..Len(outputs') :
                    outputs'[i].out \in OutIntegers(e[2])]_vars

-----------------------------------------------------------------------------
(* Properties of the EG guards, checked on SpecEG.                         *)

\* C31: the guard of every edge. Attack and Decay go to Release exactly when
\* gate and repeat are both false, also on a tick whose clock has reached a
\* resp. d; Sustain goes to Release exactly when gate is false, whatever
\* repeat is; Release goes to Attack exactly when gate is true, and with gate
\* false it goes to Idle only once the clock has reached r; Idle goes to
\* Attack exactly when gate or repeat is true.
C31_GuardsAndPriority ==
    egTicks > 0 =>
        /\ egPrev.state \in {"A", "D"} =>
              (eg.state = "R" <=> (~egIn.gate /\ ~egIn.repeat))
        /\ egPrev.state = "S" => (eg.state = "R" <=> ~egIn.gate)
        /\ egPrev.state = "R" =>
              /\ eg.state = "A" <=> egIn.gate
              /\ eg.state = "Idle" <=> (~egIn.gate /\ egPrev.clock >= egIn.r)
        /\ egPrev.state = "Idle" =>
              (eg.state = "A" <=> (egIn.gate \/ egIn.repeat))

\* C31 witness: a tick that finds Attack with its clock past a while gate and
\* repeat are both false, and ends in Release
C31_Witness ==
    /\ egTicks > 0
    /\ egPrev.state = "A"
    /\ egPrev.clock >= egIn.a
    /\ ~egIn.gate /\ ~egIn.repeat
    /\ eg.state = "R"

\* C32: with s in [0,1] and a, d, r >= 0 on every tick, out and level lie in
\* [0,1] after every tick, whatever gate and repeat are and however a, d, s, r
\* change from tick to tick.
C32_OutAndLevelInUnitRange ==
    /\ FLe(Zero, eg.out) /\ FLe(eg.out, One)
    /\ FLe(Zero, eg.level) /\ FLe(eg.level, One)

\* C32 witness: the second tick of a retriggered Attack that started from a
\* captured level of 1 and has a positive attack time
C32_Witness ==
    /\ egTicks > 1
    /\ eg.state = "A"
    /\ egPrev.state = "A"
    /\ eg.level = One
    /\ egIn.a > 0
    /\ eg.out = One

-----------------------------------------------------------------------------
(* SpecEGRepeat: one EG unit ticked for ever with gate false, repeat true  *)
(* and a, d, s, r that stay what the first tick found.                     *)

\* Module::update(&mut eg, rack, input), once per sample for as long as the
\* audio stream plays; egTicks counts the ticks up to MaxEgTicks
EGRepeatTick(a, d, s, r) ==
    LET in == EGInputs(FALSE, TRUE, a, d, s, r)
    IN /\ egTicks = 0 \/ in = egIn
       /\ egPrev' = eg
       /\ egMid' = EGTransition(eg, in)
       /\ eg' = EGAdvance(EGOutput(egMid', in))
       /\ egIn' = in
       /\ egRun' = RunAfter(egRun, eg, in, eg')
       /\ egTicks' = IF egTicks < MaxEgTicks THEN egTicks + 1 ELSE egTicks
       /\ UNCHANGED <<ctlVars, threadVars, cfgVars, patchVars, vcoVars, lpfVars>>

NextEGRepeat ==
    \E a \in EgTimes, d \in EgTimes, s \in EgLevels, r \in EgTimes :
        EGRepeatTick(a, d, s, r)

\* the stream's callback is called again and again, and every sample of a
\* buffer ticks the rack
SpecEGRepeat == InitEG /\ [][NextEGRepeat]_vars /\ WF_vars(NextEGRepeat)

\* the successor of each state on the repeat cycle
CycleNext(state) ==
    CASE state = "A" -> "D"
      [] state = "D" -> "S"
      [] state = "S" -> "R"
      [] state = "R" -> "Idle"
      [] state = "Idle" -> "A"

\* C34: with gate constantly false and repeat constantly true the EG goes
\* round Attack, Decay, Sustain, Release, Idle for ever: a tick keeps the
\* state or takes the next one on the cycle, Sustain and Idle last one tick,
\* Release is left exactly on the tick that finds its clock at r or later,
\* and every state is visited again and again.
C34_RepeatCyclesForever ==
    /\ [](egTicks > 0 =>
            /\ eg.state \in {egPrev.state, CycleNext(egPrev.state)}
            /\ egPrev.state \in {"S", "Idle"} => eg.state = CycleNext(egPrev.state)
            /\ egPrev.state = "R" =>
                  (eg.state = "Idle" <=> egPrev.clock >= egIn.r))
    /\ \A state \in {"A", "D", "S", "R", "Idle"} : []<>(eg.state = state)

\* C34 witness: the second Attack of a repeating EG, entered from Idle after a
\* whole cycle
C34_Witness ==
    /\ egTicks >= 6
    /\ ~egIn.gate /\ egIn.repeat
    /\ egPrev.state = "Idle"
    /\ eg.state = "A"

-----------------------------------------------------------------------------
(* Properties of the units' borrows, checked on SpecRack.                  *)

\* the units of a rack whose input sources read their own out
SelfReaders(decl) ==
    {j \in 1..Len(decl) : \E k \in 1..Len(decl[j].reads) :
        decl[j].reads[k] = decl[j].name}

\* C36: a tick of a rack with a unit that reads its own out panics in the
\* block of the first such unit, after the blocks of the units declared
\* before it; a tick of a rack without such a unit returns, every read of
\* another unit's out having succeeded; no unit of MyRack reads itself, so
\* its ticks never fail.
C36_SelfReadFailsTheTick ==
    /\ [](/\ rackFailure # "None" =>
               \E j \in SelfReaders(rack) :
                  /\ rackFailure = rack[j].name
                  /\ \A i \in SelfReaders(rack) : j <= i
                  /\ log = [i \in 1..(j - 1) |-> rack[i].name]
          /\ tick >= 1 =>
               /\ SelfReaders(rack) = {}
               /\ \A j \in 1..Len(rack) :
                     Len(seen[rack[j].name]) = Len(rack[j].reads)
          /\ rack = MyRack => rackFailure = "None")
    /\ [][/\ SelfReaders(rack) # {} => rackFailure' # "None"
          /\ SelfReaders(rack) = {} => rackFailure' = "None" /\ tick' = tick + 1]_vars

\* C36 witness: the self-reading unit f panicked after unit a, declared
\* before it, was updated
C36_Witness ==
    /\ rackFailure = "f"
    /\ log = <<"a">>
    /\ out["a"] # 0
    /\ out["f"] = 0

-----------------------------------------------------------------------------
(* SpecEnum: start-up with Enum bindings whose value subset is empty, has  *)
(* an entry that names no variant, or is as the program ships them, then   *)
(* update_state on their keys.                                             *)

EnumDefInputs ==
    {<<33, EnumConfig("vco1_waveform", <<"Sine", "Square">>)>>,
     <<49, EnumConfig("vco1_waveform", << >>)>>,
     <<65, EnumConfig("vco1_waveform", <<"Sine", "Sin", "Square">>)>>,
     <<65, EnumConfig("lfo1_waveform", <<"Noise">>)>>}
EnumConfigKeys ==
    {<<"vco1_waveform", TomlArray(<<TomlItem(<<49>>, << >>, << << >> >>)>>)>>,
     <<"lfo1_waveform",
       TomlArray(<<TomlItem(<<33>>, <<33>>, << <<"Square", "Sin">> >>)>>)>>}
EnumCalls == {<<33, 64>>, <<49, 0>>, <<49, 127>>, <<65, 0>>, <<65, 127>>}

NextEnum ==
    \/ \E d \in EnumDefInputs : DefineInput(d[1], d[2])
    \/ \E e \in EnumConfigKeys : SetupStateIo(e[1], e[2])
    \/ StartRunning
    \/ \E c \in EnumCalls : UpdateState(c[1], c[2])

SpecEnum == InitCfg /\ [][NextEnum]_vars

\* the binding the last call's key has is an Enum binding of an Enum field
EnumCall ==
    /\ call.key \in DOMAIN inputs
    /\ inputs[call.key].type = "Enum"
    /\ field_type(inputs[call.key].name) = "Enum"

\* C37: define_input and setup_state_io accept an Enum binding whatever its
\* value subset is; a call on a binding with a non-empty subset never fails;
\* on a binding with an empty subset a press fails with an index out of range
\* and a release returns, either leaving every field as it was.
C37_EmptySubsetPressFails ==
    /\ setup # "rejected"
    /\ EnumCall =>
          /\ Len(inputs[call.key].values) > 0 => failure = "None"
          /\ Len(inputs[call.key].values) = 0 =>
                /\ input = call.before
                /\ Pressed(call.value) => failure = "IndexOutOfRange"
                /\ ~Pressed(call.value) => failure = "None"

\* C37 witness: a press on key 49, bound by the configuration file to an
\* empty subset, has failed
C37_Witness ==
    /\ defined.op = "setup_state_io"
    /\ 49 \in DOMAIN inputs
    /\ inputs[49] = EnumConfig("vco1_waveform", << >>)
    /\ call.key = 49
    /\ Pressed(call.value)
    /\ failure = "IndexOutOfRange"

\* the entry of values a press hands to the setter when the field holds the
\* variant named current: the one after the first entry equal to current,
\* the first one after the last, or the first one when no entry is equal
PressTarget(values, current) ==
    IF \E i \in 1..Len(values) : values[i] = current
    THEN LET i == CHOOSE i \in 1..Len(values) :
                    /\ values[i] = current
                    /\ \A j \in 1..(i - 1) : values[j] # current
         IN values[(i % Len(values)) + 1]
    ELSE values[1]

\* C38: a press that hands the setter an entry that names no variant
\* returns without a failure and leaves every field as it was, so the field
\* stays at the valid entry before that name however often the key is
\* pressed; a press that hands it the name of a variant sets that variant.
C38_BadNameLeavesFieldUnchanged ==
    (/\ EnumCall
     /\ Pressed(call.value)
     /\ Len(inputs[call.key].values) > 0) =>
        LET name == inputs[call.key].name
            target == PressTarget(inputs[call.key].values,
                                  to_name(call.before[name]))
        IN /\ failure = "None"
           /\ target \notin WaveFormNames => input = call.before
           /\ target \in WaveFormNames =>
                 input = [call.before EXCEPT ![name] = from_name(target)]

\* C38 witness: key 65 cycles Sine, "Sin", Square; a press while the field is
\* Sine has left it Sine
C38_Witness ==
    /\ 65 \in DOMAIN inputs
    /\ inputs[65] = EnumConfig("vco1_waveform", <<"Sine", "Sin", "Square">>)
    /\ call.key = 65
    /\ Pressed(call.value)
    /\ call.before.vco1_waveform = "WaveForm::Sine"
    /\ input.vco1_waveform = "WaveForm::Sine"
    /\ failure = "None"

-----------------------------------------------------------------------------
(* Properties of the key table and of what a call may change (SpecCfg).    *)

\* C40: after a call with a key that has no binding every field is as it was
\* before the call; after a call with a bound key every field other than the
\* one its binding names is as it was; and a define_input of a registered
\* name makes its configuration the one binding of its key, replacing what
\* the key was bound to and leaving the other keys' bindings alone.
C40_OneBindingOneField ==
    /\ [](call # NoCall =>
            /\ call.key \notin DOMAIN inputs => input = call.before
            /\ call.key \in DOMAIN inputs =>
                  \A n \in FieldNames \ {inputs[call.key].name} :
                      input[n] = call.before[n])
    /\ [][\A d \in DefInputs :
            (DefineInput(d[1], d[2]) /\ setup' = "defining") =>
                /\ DOMAIN inputs' = DOMAIN inputs \cup {d[1]}
                /\ inputs'[d[1]] = d[2]
                /\ \A k \in DOMAIN inputs \ {d[1]} : inputs'[k] = inputs[k]]_vars

\* C40 witness: key 50, bound to eg1_gate as a Momentary button, and key 1,
\* bound to vco1_freq, are both bound; a release of key 50 cleared eg1_gate
\* and nothing else
C40_Witness ==
    /\ 1 \in DOMAIN inputs
    /\ 50 \in DOMAIN inputs
    /\ inputs[50] = BoolConfig("eg1_gate", "Momentary")
    /\ call = [key |-> 50, value |-> 0, before |-> call.before]
    /\ call.before.eg1_gate
    /\ input = [call.before EXCEPT !.eg1_gate = FALSE]

-----------------------------------------------------------------------------
(* Further properties of MidiMessage::try_from (SpecDec).                  *)

\* C35: decoding never aborts: whatever the bytes are, try_from returns a
\* message or the parse error, and never panics on an index or a slice
\* outside the input.
C35_DecodeNeverAborts ==
    decoded # NotDecoded =>
        decoded.kind \in {"ParseError", "ControlChange", "SysEx", "Unknown"}

-----------------------------------------------------------------------------
(* Properties of a panic of update_state in the MIDI callback (Spec).      *)

\* C33: a panic of update_state in the MIDI callback does not stop the audio
\* callback: after it, an invocation of the audio callback still acquires
\* the parameters instead of panicking.
C33_AudioSurvivesUpdatePanic ==
    (midiPc = "panicked" /\ failure # "None") => audioPc # "panicked"

\* the message under way is a control change on channel 0
OnChannelZero ==
    try_from(message).kind = "ControlChange" /\ try_from(message).ch = 0

\* C39: only a control change on channel 0 reaches update_state: the locked
\* section of any other decoded message (a control change on channels 1-15,
\* a SysEx, an Unknown) leaves the parameter set as it was, releases the lock
\* and goes on to the feedback pass, which sends one message per output
\* entry unless the sink fails.
C39_OnlyChannelZeroReachesMapping ==
    /\ [][(midiPc = "locked" /\ midiPc' # "locked" /\ ~OnChannelZero) =>
             /\ input' = input
             /\ clone' = input
             /\ lock' = "free"
             /\ midiPc' = "output"]_vars
    /\ [][(midiPc = "output" /\ midiPc' = "idle") =>
             Len(sent') = Len(outputs)]_vars

\* C39 witness: a control change for controller 1 on channel 1 has passed the
\* locked section and the parameter set is still the default
C39_Witness ==
    /\ midiPc = "output"
    /\ message = <<177, 1, 127>>
    /\ lock = "free"
    /\ input = InputDefault
    /\ clone = input

====
